---- MODULE Spec2Model ----
(***************************************************************************)
(* The kit worker of loolwsd/LOOLKit.cpp: the process-wide Document, its   *)
(* session map, the load/unload protocol with its password handling, and   *)
(* the termination poll of the control loop.                               *)
(*                                                                         *)
(* Threads: the main thread runs the control-socket handler                *)
(* (SessionMessage) and the termination poll (TerminationPoll); the        *)
(* threads of Callers run ChildSession commands and from there call        *)
(* onLoad.  A std::mutex is a variable holding its owner.                  *)
(*                                                                         *)
(* size_t counters are kept as the integer n that stands for n mod 2^64:   *)
(* a negative n is the wrapped value 2^64 + n.                             *)
(***************************************************************************)
EXTENDS Integers, Sequences, FiniteSets, TLC

\* ---------------------------------------------------------------- bounds
\* Number of onLoad calls made in one behaviour.
MaxLoads == 2

\* ---------------------------------------------------------------- inputs
SessionIds == {"s1", "s2"}
Urls == {"U", "V"}
\* A session handles its commands one after the other, sessions handle
\* theirs concurrently: a caller of onLoad is named by its session.
Callers == SessionIds

\* What the file behind the URL is: unprotected, password to view, password
\* to modify, or not loadable at all.
DocKinds == {"plain", "toView", "toModify", "broken"}

\* The password the protected file opens with.
CorrectPassword == "secret"
\* A null char* handed to the engine.
NullPassword == "<null>"

\* (docPassword, haveDocPassword) pairs a load command carries.
PasswordInputs ==
    { [have |-> FALSE, pw |-> ""],
      [have |-> TRUE, pw |-> CorrectPassword],
      [have |-> TRUE, pw |-> "wrong"] }

NoDoc == ""
Free == "free"
NoArgs == [have |-> FALSE, pw |-> ""]

\* ---------------------------------------------------------------- frames
FramePasswordRequired(ptype) ==
    "error: cmd=load kind=passwordrequired:" \o
        (IF ptype = "ToView" THEN "to-view"
         ELSE IF ptype = "ToModify" THEN "to-modify" ELSE "")
FrameWrongPassword == "error: cmd=load kind=wrongpassword"

VARIABLES
    document,                \* static std::shared_ptr<Document>: NoDoc or its _url
    docCount,                \* number of Document objects constructed so far
    _sessions,               \* std::map sessionId -> ChildSession
    usedIds,                 \* the session ids the controller has handed out
    _mutex,                  \* Document::_mutex: Free or the owning thread
    _isLoading,              \* std::atomic_size_t
    _clientViews,            \* std::atomic_size_t
    _loKitDocument,          \* "null" or "doc"
    _haveDocPassword,
    _docPassword,
    _isDocPasswordProtected,
    _docPasswordType,        \* "ToView" or "ToModify"
    _viewIdToCallbackDescr,  \* key set of the map
    lokViews,                \* the engine's live view ids
    lokNextViewId,           \* the id the engine gives to the next view
    lokPassword,             \* the password the engine opened the file with
    docKind,                 \* what the file is (fixed)
    sent,                    \* the frames each session was sent by load()
    pc,                      \* where each caller thread is inside onLoad
    args,                    \* the arguments of its onLoad call
    loadRet,                 \* what load() returned to onLoad: "none", "null", "doc"
    loads,                   \* number of onLoad calls made
    exited,                  \* "running", "EXIT_OK" or "SIGSEGV"
    step,                    \* the operation that made the last step: its
                             \* name, session, argument (the url of a session
                             \* message, the frame a load sent to the
                             \* session) and return value
    queue,                   \* TileQueue: the messages waiting for Document::run
    cursors,                 \* TileQueue: the cursor rectangle of each (viewId, part)
    ws,                      \* the control socket: the last frame sent on it
    wsNew,                   \* number of frames sent on the socket so far, modulo 2
    delivered,               \* the sessions the last step called into
    runPc,                   \* where each sending thread is
    runFrame,                \* the frame it sends next
    renderIn,                \* the document's content and the tile positions
                             \* of the request that is rendered
    renderOut,               \* the images rendered for that request
    inactive,                \* the sessions whose isActive() is false
    viewInfo,                \* the viewinfo broadcast of the last step: its
                             \* array and the number of frames each session
                             \* got
    mainPc,                  \* where lokit_main is
    jail,                    \* what lokit_main was started with and what it
                             \* has built of the jail so far
    mirror,                  \* a linkOrCopy call: the source tree, the mode,
                             \* the destination tree
    threads,                 \* the operation each thread is in, the place in
                             \* it, the mutexes it owns, what it is inside of
    TerminationFlag          \* std::atomic<bool>

pwVars == <<_haveDocPassword, _docPassword, _isDocPasswordProtected, _docPasswordType>>
lokVars == <<lokViews, lokNextViewId, lokPassword>>
docVars == <<document, docCount, usedIds>>
callVars == <<pc, args, loadRet, loads>>
imgVars == <<renderIn, renderOut>>
sideVars == <<threads, TerminationFlag>>
restVars == <<mainPc, jail, mirror, sideVars>>
runVars == <<queue, cursors, ws, wsNew, delivered, runPc, runFrame, imgVars, restVars, inactive>>

vars == <<document, docCount, _sessions, usedIds, _mutex, _isLoading, _clientViews,
          _loKitDocument, _haveDocPassword, _docPassword, _isDocPasswordProtected,
          _docPasswordType, _viewIdToCallbackDescr, lokViews,
          lokNextViewId, lokPassword, docKind, sent, pc, args, loadRet, loads,
          exited, step, queue, cursors, ws, wsNew, delivered, runPc, runFrame,
          renderIn, renderOut, inactive, viewInfo, mainPc, jail, mirror,
          threads, TerminationFlag>>

Step(op, sid, arg, ret) == [op |-> op, sid |-> sid, arg |-> arg, ret |-> ret]
\* A step the claims need no record of.
Quiet == Step("", "", "", "")

\* A freshly constructed ChildSession.
NewSession == [viewId |-> 0, closeFrame |-> FALSE, unloaded |-> FALSE]

EmptyMap == [s \in {} |-> NewSession]

\* The threads that send on the control socket: the dispatch thread of
\* Document::run, and a thread that calls Util::alertAllUsers.
SendThreads == {"lok_handler", "alert"}

\* The (viewId, part) keys the TileQueue keeps a cursor rectangle for.
CursorKeys == {<<0, 0>>, <<1, 0>>}
\* No rectangle: the payload was EMPTY, or the key has none stored.
NoRect == 0 - 1
NoFrame == [type |-> "none", body |-> "", size |-> 0]

\* The dispatch thread has just been started, the queue and the socket are
\* fresh.
NoRequest == [doc |-> "blank", tiles |-> <<>>]
NoImages == [combined |-> <<>>, single |-> <<>>]

NoViewInfo == [sent |-> FALSE, frame |-> <<>>, frames |-> <<>>]

\* ------------------------------------------------------------ the jail trees

\* The entries a source tree can have, parents before children (the order
\* nftw visits them in without FTW_DEPTH): the path relative to the source
\* and the index of the parent directory, 0 for the source itself.
Entries ==
    << [path |-> "program",                parent |-> 0],
       [path |-> "program/soffice",        parent |-> 1],
       [path |-> "program/wizards",        parent |-> 1],
       [path |-> "program/wizards/w",      parent |-> 3],
       [path |-> "sdk",                    parent |-> 0],
       [path |-> "sdk/h",                  parent |-> 5],
       [path |-> "share",                  parent |-> 0],
       [path |-> "share/config",           parent |-> 7],
       [path |-> "share/config/wizard",    parent |-> 8],
       [path |-> "share/config/wizard/x",  parent |-> 9],
       [path |-> "usr",                    parent |-> 0],
       [path |-> "usr/sdk",                parent |-> 11],
       [path |-> "usr/sdk/h",              parent |-> 12] >>

EntryIds == 1..Len(Entries)
\* The entries that are directories or regular files, and those that are
\* always regular files.
Leaves == {2, 4, 6, 10, 13}
Absent == [kind |-> "absent", ino |-> 0]
\* An entry of the source has the inode of its index; a directory made in
\* the destination has a new one.
SourceEntry(i, kind) == [kind |-> kind, ino |-> i]
NewDirectory(i) == [kind |-> "dir", ino |-> Len(Entries) + i]

LinkOrCopyTypes == {"COPY_ALL", "COPY_LO", "COPY_NO_USR"}

\* What can be at and below one entry of the source: an entry is there only
\* when its parent is a directory.
SubTrees(ids) ==
    {k \in [ids -> {"absent", "dir", "file"}] :
        \A i \in ids :
            /\ i \in Leaves => k[i] # "dir"
            /\ k[i] # "absent" /\ Entries[i].parent # 0
                  => k[Entries[i].parent] = "dir"}

\* The source trees.
SourceTrees ==
    {[i \in EntryIds |->
        LET k == IF i \in DOMAIN a THEN a[i] ELSE IF i \in DOMAIN b THEN b[i]
                 ELSE IF i \in DOMAIN c THEN c[i] ELSE d[i]
        IN IF k = "absent" THEN Absent ELSE SourceEntry(i, k)] :
        a \in SubTrees(1..4), b \in SubTrees(5..6),
        c \in SubTrees(7..10), d \in SubTrees(11..13)}

shouldCopyDir_noSdk(linkOrCopyType, path) ==
    IF linkOrCopyType = "COPY_NO_USR" THEN path # "usr"
    ELSE IF linkOrCopyType = "COPY_LO"
    THEN /\ path # "program/wizards"
         /\ path # "share/basic"
         /\ path # "share/gallery"
         /\ path # "share/Scripts"
         /\ path # "share/template"
         /\ path # "share/config/wizard"
    ELSE TRUE

\* shouldCopyDir: strcmp of the whole relative path.
shouldCopyDir(linkOrCopyType, path) ==
    IF linkOrCopyType = "COPY_NO_USR" THEN path # "usr"
    ELSE IF linkOrCopyType = "COPY_LO"
    THEN /\ path # "program/wizards"
         /\ path # "sdk"
         /\ path # "share/basic"
         /\ path # "share/gallery"
         /\ path # "share/Scripts"
         /\ path # "share/template"
         /\ path # "share/config/wizard"
         /\ path # "share/config/wizard"
    ELSE TRUE

\* File(path).createDirectories(): the directory and every missing parent.
RECURSIVE createDirectoriesOf(_, _)
createDirectoriesOf(dst, i) ==
    IF i = 0 \/ dst[i].kind = "dir" THEN dst
    ELSE createDirectoriesOf([dst EXCEPT ![i] = NewDirectory(i)], Entries[i].parent)

\* link(fpath, newPath): the destination entry is the source's inode.
link(dst, i, entry) == [dst EXCEPT ![i] = entry]

\* linkOrCopyFunction for entry i of the source: the destination after it
\* and what it returns.  dnr is the directory nftw cannot read (FTW_DNR),
\* 0 for none.
linkOrCopyFunction(src, linkOrCopyType, dnr, dst, i) ==
    IF src[i].kind = "file"
    THEN [dst |-> link(createDirectoriesOf(dst, Entries[i].parent), i, src[i]),
          ret |-> "FTW_CONTINUE"]
    ELSE IF i = dnr
    THEN [dst |-> dst, ret |-> "FTW_STOP"]
    ELSE IF ~shouldCopyDir(linkOrCopyType, Entries[i].path)
    THEN [dst |-> dst, ret |-> "FTW_SKIP_SUBTREE"]
    ELSE [dst |-> createDirectoriesOf(dst, i), ret |-> "FTW_CONTINUE"]

\* nftw with FTW_ACTIONRETVAL from entry i on: skipped holds the
\* directories whose subtree is not visited.
RECURSIVE nftw(_, _, _, _, _, _)
nftw(src, linkOrCopyType, dnr, dst, skipped, i) ==
    IF i > Len(Entries) THEN [dst |-> dst, walk |-> "ok"]
    ELSE IF src[i].kind = "absent" \/ Entries[i].parent \in skipped
    THEN nftw(src, linkOrCopyType, dnr, dst,
              IF Entries[i].parent \in skipped THEN skipped \cup {i} ELSE skipped,
              i + 1)
    ELSE LET r == linkOrCopyFunction(src, linkOrCopyType, dnr, dst, i)
         IN IF r.ret = "FTW_STOP" THEN [dst |-> r.dst, walk |-> "stopped"]
            ELSE nftw(src, linkOrCopyType, dnr, r.dst,
                      IF r.ret = "FTW_SKIP_SUBTREE" THEN skipped \cup {i} ELSE skipped,
                      i + 1)

NoMirror ==
    [src |-> [i \in EntryIds |-> Absent], type |-> "COPY_ALL", dnr |-> 0,
     dst |-> [i \in EntryIds |-> Absent], walk |-> "none"]

\* The threads that take the locks: lokit_main's socket handler,
\* Document::run, and the threads that run ChildSession commands.
LockThreads == {"main", "lok_handler"} \cup Callers

\* A thread that is in none of the operations.
Idle == [op |-> "", ip |-> 0, locks |-> {}, inside |-> ""]

InitSide ==
    /\ threads = [t \in LockThreads |-> Idle]
    /\ TerminationFlag = FALSE

\* lokit_main has built the jail and serves the control socket.
BuiltJail ==
    [noCapabilities |-> FALSE, bindMount |-> FALSE, resolved |-> FALSE,
     symlinks |-> 1, bLoopMounted |-> FALSE, sys |-> "COPY_ALL", lo |-> "COPY_LO",
     nodes |-> 2, caps |-> 3, failed |-> ""]

InitRest ==
    /\ mainPc = "serving"
    /\ jail = BuiltJail
    /\ mirror = NoMirror
    /\ InitSide

InitSocket ==
    /\ inactive = {}
    /\ viewInfo = NoViewInfo
    /\ queue = <<>>
    /\ cursors = [k \in CursorKeys |-> NoRect]
    /\ ws = NoFrame
    /\ wsNew = 0
    /\ delivered = {}
    /\ runPc = [t \in SendThreads |-> "idle"]
    /\ runFrame = [t \in SendThreads |-> NoFrame]

InitSend ==
    /\ InitRest
    /\ InitSocket

InitRun ==
    /\ InitSend
    /\ renderIn = NoRequest
    /\ renderOut = NoImages

InitDocument ==
    /\ document = NoDoc
    /\ docCount = 0
    /\ _sessions = EmptyMap
    /\ usedIds = {}
    /\ _mutex = Free
    /\ _isLoading = 0
    /\ _clientViews = 0
    /\ _loKitDocument = "null"
    /\ _haveDocPassword = FALSE
    /\ _docPassword = ""
    /\ _isDocPasswordProtected = FALSE
    /\ _docPasswordType = "ToView"
    /\ _viewIdToCallbackDescr = {}
    /\ lokViews = {}
    /\ lokNextViewId = 0
    /\ lokPassword = NullPassword
    /\ docKind \in DocKinds
    /\ sent = [s \in SessionIds |-> {}]
    /\ pc = [t \in Callers |-> "idle"]
    /\ args = [t \in Callers |-> NoArgs]
    /\ loadRet = [t \in Callers |-> "none"]
    /\ loads = 0
    /\ exited = "running"
    /\ step = Step("init", "", "", "")

Init ==
    /\ InitRun
    /\ InitDocument

\* ------------------------------------------------------ session handling

\* The validation of the session handler: url == document->getUrl().
urlMatches_any(url, docUrl) == TRUE
urlMatches(url, docUrl) == url = docUrl

\* Document::createSession on the map: [sessions, ret].
createSession_replace(sessions, sessionId) ==
    [sessions |-> [s \in DOMAIN sessions \cup {sessionId} |->
                      IF s = sessionId THEN NewSession ELSE sessions[s]],
     ret |-> TRUE]
createSession(sessions, sessionId) ==
    IF sessionId \in DOMAIN sessions
    THEN [sessions |-> sessions, ret |-> TRUE]
    ELSE [sessions |-> [s \in DOMAIN sessions \cup {sessionId} |->
                           IF s = sessionId THEN NewSession ELSE sessions[s]],
          ret |-> TRUE]

\* The `session <sid> <docKey>` branch of the control-socket handler.  The
\* decoded url is the input.  createSession locks _mutex, so the handler
\* proceeds only when the mutex is free.  The controller gives every
\* session its own id: the id of an erased session does not come again.
SessionMessage(sid, url) ==
    /\ exited = "running"
    /\ sid \in usedIds => sid \in DOMAIN _sessions
    /\ usedIds' = usedIds \cup {sid}
    /\ LET docUrl == IF document = NoDoc THEN url ELSE document
       IN /\ document' = docUrl
          /\ docCount' = IF document = NoDoc THEN docCount + 1 ELSE docCount
          /\ IF urlMatches(url, docUrl)
             THEN /\ _mutex = Free
                  /\ LET r == createSession(_sessions, sid)
                     IN /\ _sessions' = r.sessions
                        /\ step' = Step("session", sid, url, ToString(r.ret))
             ELSE /\ UNCHANGED _sessions
                  /\ step' = Step("session", sid, url, ToString(FALSE))
    /\ viewInfo' = NoViewInfo
    /\ UNCHANGED <<runVars, _mutex, _isLoading, _clientViews, _loKitDocument, pwVars,
                   _viewIdToCallbackDescr, lokVars, docKind, sent,
                   callVars, exited>>

\* A session's close-frame flag is set when the controller end closes it.
SetCloseFrame(sid) ==
    /\ exited = "running"
    /\ sid \in DOMAIN _sessions
    /\ ~_sessions[sid].closeFrame
    /\ _sessions' = [_sessions EXCEPT ![sid].closeFrame = TRUE]
    /\ step' = Quiet
    /\ viewInfo' = NoViewInfo
    /\ UNCHANGED <<runVars, docVars, _mutex, _isLoading, _clientViews, _loKitDocument,
                   pwVars, _viewIdToCallbackDescr, lokVars, docKind, sent,
                   callVars, exited>>

\* Document::forwardToChild for the payload `disconnect`: the session is
\* erased from the map (no lock is taken).
ForwardDisconnect(sid) ==
    /\ exited = "running"
    /\ document # NoDoc
    /\ sid \in DOMAIN _sessions
    /\ _sessions' = [s \in DOMAIN _sessions \ {sid} |-> _sessions[s]]
    /\ step' = Step("disconnect", sid, "", ToString(TRUE))
    /\ viewInfo' = NoViewInfo
    /\ UNCHANGED <<runVars, docVars, _mutex, _isLoading, _clientViews, _loKitDocument,
                   pwVars, _viewIdToCallbackDescr, lokVars, docKind, sent,
                   callVars, exited>>

\* ------------------------------------------------------------ purgeSessions

\* (size_t)-1, the value purgeSessions returns when try_lock fails.
PurgeUnavailable == 0 - 1

LiveSessions(sessions) == {s \in DOMAIN sessions : ~sessions[s].closeFrame}

\* Document::purgeSessions.  locked: whether try_lock got the mutex.
\* exit: std::_Exit(EXIT_OK) was called.
purgeSessions_noExit(sessions, locked) ==
    IF ~locked
    THEN [ret |-> PurgeUnavailable, sessions |-> sessions, exit |-> FALSE]
    ELSE LET kept == [s \in LiveSessions(sessions) |-> sessions[s]]
         IN [ret |-> Cardinality(DOMAIN kept), sessions |-> kept, exit |-> FALSE]
\* Mutant: counts the live sessions but erases nothing.
purgeSessions_keepDead(sessions, locked) ==
    IF ~locked
    THEN [ret |-> PurgeUnavailable, sessions |-> sessions, exit |-> FALSE]
    ELSE [ret |-> Cardinality(LiveSessions(sessions)), sessions |-> sessions,
          exit |-> LiveSessions(sessions) = {}]
\* Mutant: goes on as if the mutex had been acquired.
purgeSessions_ignoreLock(sessions, locked) ==
    LET numRunning == Cardinality(LiveSessions(sessions))
    IN IF numRunning > 0
       THEN LET kept == [s \in LiveSessions(sessions) |-> sessions[s]]
            IN [ret |-> Cardinality(DOMAIN kept), sessions |-> kept,
                exit |-> FALSE]
       ELSE [ret |-> Cardinality(DOMAIN sessions), sessions |-> sessions,
             exit |-> TRUE]
purgeSessions(sessions, locked) ==
    IF ~locked
    THEN [ret |-> PurgeUnavailable, sessions |-> sessions, exit |-> FALSE]
    ELSE LET numRunning == Cardinality(LiveSessions(sessions))
         IN IF numRunning > 0
            THEN LET kept == [s \in LiveSessions(sessions) |-> sessions[s]]
                 IN [ret |-> Cardinality(DOMAIN kept), sessions |-> kept,
                     exit |-> FALSE]
            ELSE [ret |-> Cardinality(DOMAIN sessions), sessions |-> sessions,
                  exit |-> TRUE]

hasSessions_positive(purged) == purged.ret > 0
\* Document::hasSessions and Document::canDiscard on purgeSessions' result.
hasSessions(purged) == purged.ret # 0
canDiscard(purged) == ~hasSessions(purged)

\* The termination poll of the control loop: document && canDiscard().
TerminationPoll ==
    /\ exited = "running"
    /\ document # NoDoc
    /\ LET r == purgeSessions(_sessions, _mutex = Free)
       IN /\ _sessions' = r.sessions
          /\ exited' = IF r.exit THEN "EXIT_OK" ELSE exited
          /\ TerminationFlag' = IF ~r.exit /\ canDiscard(r) THEN TRUE ELSE TerminationFlag
          /\ step' = Step("poll", "",
                           ToString(Cardinality(DOMAIN _sessions)
                                       - Cardinality(DOMAIN r.sessions)),
                           ToString(r.ret))
    /\ viewInfo' = NoViewInfo
    /\ UNCHANGED <<queue, cursors, ws, wsNew, delivered, runPc, runFrame, imgVars, mainPc,
                   jail, mirror, threads, inactive, docVars, _mutex, _isLoading,
                   _clientViews, _loKitDocument, pwVars, _viewIdToCallbackDescr, lokVars,
                   docKind, sent, callVars>>

\* ----------------------------------------------------------- the engine

\* The callback type the engine raises for a protected file.
PasswordCallbackType(kind) ==
    IF kind = "toModify" THEN "LOK_CALLBACK_DOCUMENT_PASSWORD_TO_MODIFY"
    ELSE "LOK_CALLBACK_DOCUMENT_PASSWORD"

\* Document::setDocumentPassword, called from GlobalCallback for the two
\* password callback types.  ps is the password state
\* [have, pw, protected, ptype]; submitted is what is handed to
\* _loKit->setDocumentPassword.
setDocumentPassword_resubmit(ps, nPasswordType) ==
    [ps |-> [ps EXCEPT
               !.protected = TRUE,
               !.ptype = IF nPasswordType = "LOK_CALLBACK_DOCUMENT_PASSWORD"
                         THEN "ToView" ELSE "ToModify"],
     submitted |-> IF ps.have THEN ps.pw ELSE NullPassword]

setDocumentPassword(ps, nPasswordType) ==
    IF ps.protected /\ ps.have
    THEN [ps |-> ps, submitted |-> NullPassword]
    ELSE [ps |-> [ps EXCEPT
                    !.protected = TRUE,
                    !.ptype =
                      IF nPasswordType = "LOK_CALLBACK_DOCUMENT_PASSWORD"
                      THEN "ToView"
                      ELSE IF nPasswordType = "LOK_CALLBACK_DOCUMENT_PASSWORD_TO_MODIFY"
                           THEN "ToModify" ELSE @],
          submitted |-> IF ps.have THEN ps.pw ELSE NullPassword]

\* lok::Office::documentLoad on a file of the given kind: the engine raises
\* the password callback until it is handed the right password or null.
\* [ok, ps, with]: whether a document came back, the password state the
\* callbacks left, and the password the file was opened with.
RECURSIVE documentLoad(_, _)
documentLoad(kind, ps) ==
    IF kind = "plain" THEN [ok |-> TRUE, ps |-> ps, with |-> NullPassword]
    ELSE IF kind = "broken" THEN [ok |-> FALSE, ps |-> ps, with |-> NullPassword]
    ELSE LET cb == setDocumentPassword(ps, PasswordCallbackType(kind))
         IN IF cb.submitted = NullPassword
            THEN [ok |-> FALSE, ps |-> cb.ps, with |-> NullPassword]
            ELSE IF cb.submitted = CorrectPassword
                 THEN [ok |-> TRUE, ps |-> cb.ps, with |-> cb.submitted]
                 ELSE documentLoad(kind, cb.ps)

\* ---------------------------------------------------------------- onLoad

\* onLoad is entered by a ChildSession handling its load command:
\* std::unique_lock<std::mutex> lock(_mutex).
onLoadCall(t, pwin) ==
    /\ exited = "running"
    /\ pc[t] = "idle"
    /\ loads < MaxLoads
    /\ t \in DOMAIN _sessions
    /\ _mutex = Free
    /\ _mutex' = t
    /\ pc' = [pc EXCEPT ![t] = "locked"]
    /\ args' = [args EXCEPT ![t] = pwin]
    /\ loadRet' = [loadRet EXCEPT ![t] = "none"]
    /\ loads' = loads + 1
    /\ step' = Quiet
    /\ viewInfo' = NoViewInfo
    /\ UNCHANGED <<runVars, docVars, _sessions, _isLoading, _clientViews,
                   _loKitDocument, pwVars, _viewIdToCallbackDescr,
                   lokVars, docKind, sent, exited>>

\* _cvLoading.wait returns (on a notification or spuriously) once it has the
\* mutex again.
onLoadWake(t) ==
    /\ exited = "running"
    /\ pc[t] = "wait"
    /\ _mutex = Free
    /\ _mutex' = t
    /\ pc' = [pc EXCEPT ![t] = "locked"]
    /\ step' = Quiet
    /\ viewInfo' = NoViewInfo
    /\ UNCHANGED <<runVars, docVars, _sessions, _isLoading, _clientViews,
                   _loKitDocument, pwVars, _viewIdToCallbackDescr,
                   lokVars, docKind, sent, args, loadRet, loads, exited>>

\* The loop condition of `while (_isLoading)`.
mustWait_never(isLoading) == FALSE
mustWait(isLoading) == isLoading # 0

\* while (_isLoading) _cvLoading.wait(lock);  ++_isLoading; lock.unlock();
onLoadCheck(t) ==
    /\ exited = "running"
    /\ pc[t] = "locked"
    /\ _mutex = t
    /\ _mutex' = Free
    /\ IF mustWait(_isLoading)
       THEN /\ pc' = [pc EXCEPT ![t] = "wait"]
            /\ UNCHANGED _isLoading
            /\ step' = Quiet
       ELSE /\ pc' = [pc EXCEPT ![t] = "load"]
            /\ _isLoading' = _isLoading + 1
            /\ step' = Quiet
    /\ viewInfo' = NoViewInfo
    /\ UNCHANGED <<runVars, docVars, _sessions, _clientViews, _loKitDocument, pwVars,
                   _viewIdToCallbackDescr, lokVars, docKind, sent,
                   args, loadRet, loads, exited>>

\* ------------------------------------------------------------------ load

\* session->sendTextFrame(frame) from load(); "" stands for no frame.
SendTo(sid, frame) ==
    IF frame = "" THEN sent ELSE [sent EXCEPT ![sid] = @ \cup {frame}]

\* What onLoad does with load()'s outcome: with a null _loKitDocument it
\* returns nullptr at once (leaving _isLoading as it is); otherwise it goes
\* on to the final section.  ret is what load() returned ("null", "doc"),
\* lokDoc is _loKitDocument after load(), frame is what load() sent to the
\* session ("" for nothing).
AfterLoad(t, ret, lokDoc, frame) ==
    IF lokDoc = "null"
    THEN /\ pc' = [pc EXCEPT ![t] = "idle"]
         /\ args' = [args EXCEPT ![t] = NoArgs]
         /\ loadRet' = [loadRet EXCEPT ![t] = "none"]
         /\ step' = Step("onLoad.return", t, frame, "null")
    ELSE /\ pc' = [pc EXCEPT ![t] = "finish"]
         /\ args' = [args EXCEPT ![t] = NoArgs]
         /\ loadRet' = [loadRet EXCEPT ![t] = ret]
         /\ step' = Step("load", t, frame, ret)

\* The common tail of load(): initializeForRendering, setViewId(getView()),
\* emplace the CallbackDescriptor, registerCallback.  (The render options
\* are taken to be well-formed JSON.)
RegisterView(t, viewId, lokDoc) ==
    /\ _sessions' = [_sessions EXCEPT ![t].viewId = viewId]
    /\ _viewIdToCallbackDescr' = _viewIdToCallbackDescr \cup {viewId}
    /\ AfterLoad(t, "doc", lokDoc, "")

\* load(): the session is not in the map.
LoadNoSession(t) ==
    /\ exited = "running"
    /\ pc[t] = "load"
    /\ t \notin DOMAIN _sessions
    /\ AfterLoad(t, "null", _loKitDocument, "")
    /\ viewInfo' = NoViewInfo
    /\ UNCHANGED <<runVars, docVars, _sessions, _mutex, _isLoading, _clientViews,
                   _loKitDocument, pwVars, _viewIdToCallbackDescr,
                   lokVars, docKind, sent, loads, exited>>

\* The password state load() sets before the first documentLoad.
FirstLoadState(t) ==
    [have |-> args[t].have, pw |-> args[t].pw, protected |-> FALSE,
     ptype |-> _docPasswordType]

\* load(), first load, documentLoad gave a document.
LoadFirstOk(t) ==
    /\ exited = "running"
    /\ pc[t] = "load"
    /\ t \in DOMAIN _sessions
    /\ _loKitDocument = "null"
    /\ LET r == documentLoad(docKind, FirstLoadState(t))
       IN /\ r.ok
          /\ _haveDocPassword' = r.ps.have
          /\ _docPassword' = r.ps.pw
          /\ _isDocPasswordProtected' = r.ps.protected
          /\ _docPasswordType' = r.ps.ptype
          /\ _loKitDocument' = "doc"
          /\ lokViews' = {lokNextViewId}
          /\ lokNextViewId' = lokNextViewId + 1
          /\ lokPassword' = r.with
          /\ RegisterView(t, lokNextViewId, "doc")
    /\ viewInfo' = NoViewInfo
    /\ UNCHANGED <<runVars, docVars, _mutex, _isLoading, _clientViews, docKind, sent,
                   loads, exited>>

\* The frame load() sends after a failed first documentLoad.
FirstLoadFrame(ps) ==
    IF ~ps.protected THEN ""
    ELSE IF ~ps.have THEN FramePasswordRequired(ps.ptype)
    ELSE FrameWrongPassword

\* load(), first load, documentLoad gave null.  _loKitDocument->getLock() is
\* then called on the null pointer before the null check: the process
\* either dies there or gets to the check.
LoadFirstFailed(t) ==
    /\ exited = "running"
    /\ pc[t] = "load"
    /\ t \in DOMAIN _sessions
    /\ _loKitDocument = "null"
    /\ LET r == documentLoad(docKind, FirstLoadState(t))
       IN /\ ~r.ok
          /\ _haveDocPassword' = r.ps.have
          /\ _docPassword' = r.ps.pw
          /\ _isDocPasswordProtected' = r.ps.protected
          /\ _docPasswordType' = r.ps.ptype
          /\ \/ /\ exited' = "SIGSEGV"
                /\ step' = Step("load.crash", t, "", "")
                /\ UNCHANGED <<sent, pc, args, loadRet>>
             \/ /\ exited' = exited
                /\ sent' = SendTo(t, FirstLoadFrame(r.ps))
                /\ AfterLoad(t, "null", "null", FirstLoadFrame(r.ps))
    /\ viewInfo' = NoViewInfo
    /\ UNCHANGED <<runVars, docVars, _sessions, _mutex, _isLoading, _clientViews,
                   _loKitDocument, _viewIdToCallbackDescr, lokVars,
                   docKind, loads>>

\* The password check of a later load: the frame it refuses with, "" when
\* the view may be created.
ViewLoadFrame(have, pw) ==
    IF ~_isDocPasswordProtected THEN ""
    ELSE IF ~have THEN FramePasswordRequired(_docPasswordType)
    ELSE IF pw # _docPassword THEN FrameWrongPassword
    ELSE ""

\* load() on a loaded document, refused by the password check.
LoadViewRefused(t) ==
    /\ exited = "running"
    /\ pc[t] = "load"
    /\ t \in DOMAIN _sessions
    /\ _loKitDocument = "doc"
    /\ LET frame == ViewLoadFrame(args[t].have, args[t].pw)
       IN /\ frame # ""
          /\ sent' = SendTo(t, frame)
          /\ AfterLoad(t, "null", _loKitDocument, frame)
    /\ viewInfo' = NoViewInfo
    /\ UNCHANGED <<runVars, docVars, _sessions, _mutex, _isLoading, _clientViews,
                   _loKitDocument, pwVars, _viewIdToCallbackDescr,
                   lokVars, docKind, loads, exited>>

\* load() on a loaded document: createView and the common tail.
LoadViewOk(t) ==
    /\ exited = "running"
    /\ pc[t] = "load"
    /\ t \in DOMAIN _sessions
    /\ _loKitDocument = "doc"
    /\ ViewLoadFrame(args[t].have, args[t].pw) = ""
    /\ lokViews' = lokViews \cup {lokNextViewId}
    /\ lokNextViewId' = lokNextViewId + 1
    /\ RegisterView(t, lokNextViewId, _loKitDocument)
    /\ viewInfo' = NoViewInfo
    /\ UNCHANGED <<runVars, docVars, _mutex, _isLoading, _clientViews,
                   _loKitDocument, pwVars, lokPassword, docKind, sent,
                   loads, exited>>

load(t) ==
    \/ LoadNoSession(t)
    \/ LoadFirstOk(t)
    \/ LoadFirstFailed(t)
    \/ LoadViewRefused(t)
    \/ LoadViewOk(t)

\* The final section of onLoad: lock.lock(); ++_clientViews; --_isLoading;
\* _cvLoading.notify_one(); return _loKitDocument.
onLoadFinish(t) ==
    /\ exited = "running"
    /\ pc[t] = "finish"
    /\ _mutex = Free
    /\ _clientViews' = _clientViews + 1
    /\ _isLoading' = _isLoading - 1
    /\ pc' = [pc EXCEPT ![t] = "idle"]
    /\ args' = [args EXCEPT ![t] = NoArgs]
    /\ loadRet' = [loadRet EXCEPT ![t] = "none"]
    /\ step' = Step("onLoad.return", "", "", "doc")
    /\ viewInfo' = NoViewInfo
    /\ UNCHANGED <<runVars, docVars, _sessions, _mutex, _loKitDocument, pwVars,
                   _viewIdToCallbackDescr, lokVars, docKind, sent,
                   loads, exited>>

\* -------------------------------------------------------------- onUnload

\* ChildSession::getViewUserName of each session, and the colours the engine
\* reports for .uno:TrackedChangeAuthors.
UserNames == [s \in SessionIds |-> IF s = "s1" THEN "alice" ELSE "bob"]
AuthorColours == [a \in {"alice"} |-> 3]

\* The sessions, in map order, as a sequence.
RECURSIVE InOrder(_, _)
InOrder(S, i) ==
    IF i > 2 THEN <<>>
    ELSE (IF (IF i = 1 THEN "s1" ELSE "s2") \in S
          THEN <<IF i = 1 THEN "s1" ELSE "s2">> ELSE <<>>) \o InOrder(S, i + 1)

RECURSIVE PutAll(_, _, _)
\* viewInfo[viewId] = userName for the sessions of order, one after the other.
PutAll(info, order, sessions) ==
    IF order = <<>> THEN info
    ELSE LET s == Head(order)
             v == sessions[s].viewId
         IN PutAll([w \in DOMAIN info \cup {v} |->
                       IF w = v THEN UserNames[s] ELSE info[w]],
                   Tail(order), sessions)

\* Document::getViewInfo: view id -> user name, from the sessions whose
\* close frame is not set.
getViewInfo(sessions) ==
    PutAll(<<>>, InOrder({s \in DOMAIN sessions : ~sessions[s].closeFrame}, 1),
           sessions)

getViewColors == AuthorColours

gotViewInfo_closedToo(session, isActive) == isActive
\* if (!session->isCloseFrame() && session->isActive())
gotViewInfo(session, isActive) == ~session.closeFrame /\ isActive

\* Document::notifyViewInfo(viewIds): the array of the frame, and the number
\* of `viewinfo:` frames each session is sent.
notifyViewInfo(sessions, viewIds, notActive) ==
    LET viewInfoMap == getViewInfo(sessions)
        viewColorsMap == getViewColors
    IN [sent |-> TRUE,
        frame |-> [v \in viewIds |->
                     IF v \notin DOMAIN viewInfoMap
                     THEN [username |-> "Unknown", color |-> 0]
                     ELSE [username |-> viewInfoMap[v],
                           color |-> IF viewInfoMap[v] \in DOMAIN viewColorsMap
                                     THEN viewColorsMap[viewInfoMap[v]]
                                     ELSE 0]],
        frames |-> [s \in DOMAIN sessions |->
                      IF gotViewInfo(sessions[s], s \notin notActive)
                      THEN 1 ELSE 0]]

removeCursorPosition_all(cur, viewId) == [k \in DOMAIN cur |-> NoRect]
\* TileQueue::removeCursorPosition(viewId).
removeCursorPosition(cur, viewId) ==
    [k \in DOMAIN cur |-> IF k[1] = viewId THEN NoRect ELSE cur[k]]

\* Document::onUnload(session), called once by a ChildSession when it
\* disconnects.  notifyViewInfo at its end locks _mutex.
onUnload(sid) ==
    /\ exited = "running"
    /\ sid \in DOMAIN _sessions
    /\ ~_sessions[sid].unloaded
    /\ _sessions' = [_sessions EXCEPT ![sid].unloaded = TRUE]
    /\ cursors' = removeCursorPosition(cursors, _sessions[sid].viewId)
    /\ IF _loKitDocument = "null"
       THEN /\ viewInfo' = NoViewInfo
            /\ UNCHANGED <<_clientViews, lokViews, _viewIdToCallbackDescr>>
       ELSE /\ _mutex = Free
            /\ _clientViews' = _clientViews - 1
            /\ lokViews' = lokViews \ {_sessions[sid].viewId}
            /\ _viewIdToCallbackDescr' =
                   _viewIdToCallbackDescr \ {_sessions[sid].viewId}
            /\ viewInfo' = notifyViewInfo(_sessions', lokViews', inactive)
    /\ step' = Step("onUnload", sid, "", ToString(_loKitDocument # "null"))
    /\ UNCHANGED <<queue, ws, wsNew, delivered, runPc, runFrame, imgVars, restVars, inactive,
                   docVars, _mutex, _isLoading, _loKitDocument, pwVars,
                   lokNextViewId, lokPassword, docKind, sent,
                   callVars, exited>>

Next ==
    \/ \E sid \in SessionIds, url \in Urls : SessionMessage(sid, url)
    \/ \E sid \in SessionIds : SetCloseFrame(sid)
    \/ \E sid \in SessionIds : ForwardDisconnect(sid)
    \/ TerminationPoll
    \/ \E t \in Callers, pwin \in PasswordInputs : onLoadCall(t, pwin)
    \/ \E t \in Callers : onLoadWake(t)
    \/ \E t \in Callers : onLoadCheck(t)
    \/ \E t \in Callers : load(t)
    \/ \E t \in Callers : onLoadFinish(t)
    \/ \E sid \in SessionIds : onUnload(sid)

Spec == Init /\ [][Next]_vars

\* A thread that is inside onLoad and can take its next step takes it.
onLoadStep(t) == onLoadWake(t) \/ onLoadCheck(t) \/ load(t) \/ onLoadFinish(t)
FairSpec == Spec /\ \A t \in Callers : WF_vars(onLoadStep(t))

\* ------------------------------------------------- messages and the queue
\* Everything of the load protocol that the dispatch loop leaves alone.
loadVars == <<docVars, _mutex, _isLoading, _clientViews, _loKitDocument,
              pwVars, _viewIdToCallbackDescr, lokVars, docKind, sent,
              callVars>>

\* Tile columns: a tile message is at one column, a cursor rectangle lies
\* in one column.
TilePositions == {0, 1}
\* A view id in a callback message; BroadcastViewId is "-1 means broadcast".
BroadcastViewId == 0 - 1
ViewIds == {0, 1}
\* What follows `child-` in a forwarded message: a session id, or the text
\* of a view id.
ChildIds == SessionIds \cup {ToString(v) : v \in ViewIds}
ChildPayloads == {"disconnect", "key"}

\* A queue message: its first token, the id after `child-`, the payload of
\* a child message, the tile column or the view id, and whether its
\* parameters parse.
Msg(cmd, id, arg, n, ok) == [cmd |-> cmd, id |-> id, arg |-> arg, n |-> n, ok |-> ok]
TileMsg(pos, ok) == Msg("tile", "", "", pos, ok)
TileCombineMsg(ok) == Msg("tilecombine", "", "", 0, ok)
CancelTilesMsg == Msg("canceltiles", "", "", 0, TRUE)
ChildMsg(id, payload) == Msg("child", id, payload, 0, TRUE)
CallbackMsg(viewId) == Msg("callback", "", "", viewId, TRUE)
\* The callback message of a view: which kind of type it carries.
ViewCallbackMsg(viewId, kind) == Msg("callback", "", kind, viewId, TRUE)

\* The messages the control-socket handler puts on the queue.
ControlMessages ==
    {TileMsg(pos, ok) : pos \in TilePositions, ok \in BOOLEAN}
        \cup {TileCombineMsg(TRUE), CancelTilesMsg}
        \cup {ChildMsg(id, payload) : id \in ChildIds, payload \in ChildPayloads}

IsTile(m) == m.cmd \in {"tile", "tilecombine"}

\* The columns a tile message covers: a combined tile covers all of them.
Columns(m) == IF m.cmd = "tilecombine" THEN TilePositions ELSE {m.n}

\* TileQueue: the message intersects one of the stored cursor rectangles.
Priority(m, cur) ==
    IsTile(m) /\ \E k \in CursorKeys : cur[k] # NoRect /\ cur[k] \in Columns(m)

RECURSIVE SelectSeq2(_, _, _)
\* The subsequence of q of the messages m with IsTile(m) and
\* Priority(m, cur) = want.
SelectSeq2(q, cur, want) ==
    IF q = <<>> THEN <<>>
    ELSE LET rest == SelectSeq2(Tail(q), cur, want)
         IN IF IsTile(Head(q)) /\ Priority(Head(q), cur) = want
            THEN <<Head(q)>> \o rest
            ELSE rest

RECURSIVE Refill(_, _)
\* q with its tile messages replaced, slot by slot, by those of tiles.
Refill(q, tiles) ==
    IF q = <<>> THEN <<>>
    ELSE IF IsTile(Head(q))
         THEN <<Head(tiles)>> \o Refill(Tail(q), Tail(tiles))
         ELSE <<Head(q)>> \o Refill(Tail(q), tiles)

\* Mutant: the message put last goes to the front when it intersects.
Prioritized_front(q, cur) ==
    IF Priority(q[Len(q)], cur) THEN <<q[Len(q)]>> \o SubSeq(q, 1, Len(q) - 1) ELSE q

\* The queue with the tile messages that intersect a cursor rectangle moved
\* ahead of those that do not; both groups keep their order, every other
\* message keeps its place.
Prioritized(q, cur) ==
    Refill(q, SelectSeq2(q, cur, TRUE) \o SelectSeq2(q, cur, FALSE))

WithoutTiles_keep(q) == q

RECURSIVE WithoutTiles(_)
WithoutTiles(q) ==
    IF q = <<>> THEN <<>>
    ELSE IF IsTile(Head(q)) THEN WithoutTiles(Tail(q))
         ELSE <<Head(q)>> \o WithoutTiles(Tail(q))

put_front(q, cur, m) ==
    IF m.cmd = "canceltiles" THEN {Append(WithoutTiles(q), m)}
    ELSE IF IsTile(m) THEN {Append(q, m), Prioritized(Append(q, m), cur)}
    ELSE {<<m>> \o q}

\* TileQueue::put: the queues it may leave.  canceltiles drops the pending
\* tile messages; a tile message may be put with the cursor's tiles moved
\* ahead.
put(q, cur, m) ==
    IF m.cmd = "canceltiles" THEN {Append(WithoutTiles(q), m)}
    ELSE IF IsTile(m) THEN {Append(q, m), Prioritized(Append(q, m), cur)}
    ELSE {Append(q, m)}

get_last(q) == [msg |-> q[Len(q)], queue |-> SubSeq(q, 1, Len(q) - 1)]
\* TileQueue::get on a queue that is not empty: [msg, queue].
get(q) == [msg |-> Head(q), queue |-> Tail(q)]

\* ------------------------------------------------------ the control socket
\* SMALL_MESSAGE_SIZE, scaled down; frames are as long as it or one longer.
SMALL_MESSAGE_SIZE == 2
FrameSizes == {SMALL_MESSAGE_SIZE, SMALL_MESSAGE_SIZE + 1}

\* A frame on the socket.  size is its length in bytes; for a nextmessage
\* frame it is the length the frame announces.
Frame(type, body, size) == [type |-> type, body |-> body, size |-> size]
NextMessageFrame(length) == Frame("text", "nextmessage", length)

\* if (length > SMALL_MESSAGE_SIZE)
needsNextMessage(length) == length > SMALL_MESSAGE_SIZE

\* Thread t starts to send frame f: a long frame is announced by a
\* nextmessage frame first and sent by the thread's next sendFrame call, a
\* short one is sent at once.
StartSend(t, f) ==
    /\ wsNew' = 1 - wsNew
    /\ IF needsNextMessage(f.size)
       THEN /\ ws' = NextMessageFrame(f.size)
            /\ runPc' = [runPc EXCEPT ![t] = "frame"]
            /\ runFrame' = [runFrame EXCEPT ![t] = f]
       ELSE /\ ws' = f
            /\ UNCHANGED <<runPc, runFrame>>

\* Nothing is sent.
NoSend == UNCHANGED <<ws, wsNew, runPc, runFrame>>

\* The second sendFrame call of a thread that has announced a frame.
sendFrame(t) ==
    /\ exited = "running"
    /\ runPc[t] = "frame"
    /\ ws' = runFrame[t]
    /\ wsNew' = 1 - wsNew
    /\ runPc' = [runPc EXCEPT ![t] = "idle"]
    /\ runFrame' = [runFrame EXCEPT ![t] = NoFrame]
    /\ delivered' = {}
    /\ step' = Step("sendFrame", t, runFrame[t].body, "")
    /\ viewInfo' = NoViewInfo
    /\ UNCHANGED <<inactive, imgVars, restVars, loadVars, _sessions, exited, queue, cursors>>

\* Document::sendTextFrame called through Util::alertAllUsers by a thread
\* other than the dispatch thread.  bad: the socket polls an error.
alertAllUsers(size, bad) ==
    /\ exited = "running"
    /\ document # NoDoc
    /\ runPc["alert"] = "idle"
    /\ IF bad THEN NoSend
       ELSE StartSend("alert", Frame("text", "errortoall", size))
    /\ delivered' = {}
    /\ step' = Step("sendTextFrame", "alert", "errortoall", ToString(~bad))
    /\ viewInfo' = NoViewInfo
    /\ UNCHANGED <<inactive, imgVars, restVars, loadVars, _sessions, exited, queue, cursors>>

\* --------------------------------------------------- producers of the queue
\* The tile, tilecombine, canceltiles and child- branch of the control-socket
\* handler: the message is put on the queue when a Document exists.  The
\* step tells how many waiting messages the put removed.
ControlMessage(m) ==
    /\ exited = "running"
    /\ IF document # NoDoc
       THEN queue' \in put(queue, cursors, m)
       ELSE UNCHANGED queue
    /\ delivered' = {}
    /\ step' = Step("control", m.cmd,
                     IF document # NoDoc THEN ToString(Len(queue) + 1 - Len(queue'))
                     ELSE "0",
                     ToString(document # NoDoc))
    /\ viewInfo' = NoViewInfo
    /\ UNCHANGED <<inactive, imgVars, restVars, loadVars, _sessions, exited, cursors, ws, wsNew, runPc, runFrame>>

\* The rectangle a cursor callback reports; NoRect is the payload EMPTY.
Rects == TilePositions \cup {NoRect}

\* A payload that does not parse: four comma-separated tokens one of which
\* is no number, or, for the view cursor types, text that is no JSON object
\* with viewId, part and rectangle (the bare word EMPTY among them).
Unparsable == 0 - 2
Payloads == Rects \cup {Unparsable}

throws_never(kind, rect) == FALSE
\* std::stoi and Poco::JSON::Parser::parse throw on such a payload, in the
\* branches of the four cursor types; nothing in ViewCallback catches.
throws(kind, rect) == kind \in {"cursor", "viewcursor"} /\ rect = Unparsable

callbackReturns_never(flag) == FALSE
\* if (TerminationFlag) return; at the head of each callback.
callbackReturns(flag) == flag

\* Document::ViewCallback of the view viewId.  kind: "cursor" for
\* INVALIDATE_VISIBLE_CURSOR and CELL_CURSOR, "viewcursor" for
\* INVALIDATE_VIEW_CURSOR and CELL_VIEW_CURSOR (its payload names the view
\* jsonViewId), "other" for every other type.
ViewCallback(viewId, kind, rect, jsonViewId) ==
    /\ exited = "running"
    /\ viewId \in _viewIdToCallbackDescr
    /\ IF callbackReturns(TerminationFlag)
       THEN UNCHANGED <<cursors, queue, exited>>
       ELSE /\ _mutex = Free
            /\ IF throws(kind, rect)
               THEN /\ exited' \in {"running", "SIGABRT"}
                    /\ UNCHANGED <<cursors, queue>>
               ELSE /\ cursors' = IF rect \in {NoRect, Unparsable} \/ kind = "other" THEN cursors
                                  ELSE IF kind = "cursor"
                                       THEN [cursors EXCEPT ![<<0, 0>>] = rect]
                                       ELSE [cursors EXCEPT ![<<jsonViewId, 0>>] = rect]
                    /\ queue' \in put(queue, cursors', ViewCallbackMsg(viewId, kind))
                    /\ UNCHANGED exited
    /\ delivered' = {}
    /\ step' = Step("ViewCallback", ToString(viewId), kind, "")
    /\ viewInfo' = NoViewInfo
    /\ UNCHANGED <<inactive, imgVars, restVars, loadVars, _sessions, ws, wsNew, runPc, runFrame>>

\* Document::GlobalCallback for a type that is not a password request, and
\* Document::DocumentCallback: broadcastCallbackToClients.
broadcastCallbackToClients ==
    /\ exited = "running"
    /\ _loKitDocument = "doc"
    /\ IF callbackReturns(TerminationFlag)
       THEN UNCHANGED queue
       ELSE /\ _mutex = Free
            /\ queue' \in put(queue, cursors, CallbackMsg(BroadcastViewId))
    /\ delivered' = {}
    /\ step' = Step("broadcast", "", "", "")
    /\ viewInfo' = NoViewInfo
    /\ UNCHANGED <<inactive, imgVars, restVars, loadVars, _sessions, exited, cursors, ws, wsNew, runPc, runFrame>>

\* Document::GlobalCallback for one of the two password types, raised by
\* the engine while it loads the file: setDocumentPassword.
PasswordTypes ==
    {"LOK_CALLBACK_DOCUMENT_PASSWORD", "LOK_CALLBACK_DOCUMENT_PASSWORD_TO_MODIFY"}

GlobalCallback(nType) ==
    /\ exited = "running"
    /\ _loKitDocument = "null"
    /\ LET ps == [have |-> _haveDocPassword, pw |-> _docPassword,
                  protected |-> _isDocPasswordProtected, ptype |-> _docPasswordType]
           cb == IF callbackReturns(TerminationFlag) THEN [ps |-> ps, submitted |-> ""]
                 ELSE setDocumentPassword(ps, nType)
       IN /\ _haveDocPassword' = cb.ps.have
          /\ _docPassword' = cb.ps.pw
          /\ _isDocPasswordProtected' = cb.ps.protected
          /\ _docPasswordType' = cb.ps.ptype
          /\ step' = Step("GlobalCallback", "", nType, cb.submitted)
    /\ delivered' = {}
    /\ viewInfo' = NoViewInfo
    /\ UNCHANGED <<inactive, imgVars, restVars, docVars, _mutex, _isLoading, _clientViews,
                   _loKitDocument, _viewIdToCallbackDescr, lokVars, docKind, sent,
                   callVars, _sessions, exited, queue, cursors, ws, wsNew, runPc, runFrame>>

\* --------------------------------------------------------- Document::run
\* std::map keeps the sessions in the order of their ids.
SessionOrder == <<"s1", "s2">>
\* The first session of S in map order.
FirstSession(S) ==
    SessionOrder[CHOOSE i \in 1..Len(SessionOrder) :
                    /\ SessionOrder[i] \in S
                    /\ \A j \in 1..(i - 1) : SessionOrder[j] \notin S]

\* The `callback` branch of run: the sessions whose loKitCallback is called.
\* The loop over _sessions stops at the first session whose view id is
\* viewId (any session when viewId is -1), live or not.
CallbackTargets(sessions, viewId) ==
    LET matching == {s \in DOMAIN sessions :
                        sessions[s].viewId = viewId \/ viewId = BroadcastViewId}
    IN IF matching = {} THEN {}
       ELSE IF sessions[FirstSession(matching)].closeFrame THEN {}
            ELSE {FirstSession(matching)}

\* Mutant: looks the session up by its view id.
forwardTarget_byViewId(sessions, id) ==
    {s \in DOMAIN sessions : ToString(sessions[s].viewId) = id}
\* Document::forwardToChild: _sessions.find(viewId), on a map whose keys
\* are the session ids.
forwardTarget(sessions, id) == {s \in DOMAIN sessions : s = id}

\* Document::forwardToChild: [sessions, input, ret].  input: the sessions
\* whose handleInput is called.
forwardToChild(sessions, id, message) ==
    LET found == forwardTarget(sessions, id)
    IN IF found = {}
       THEN [sessions |-> sessions, input |-> {}, ret |-> FALSE]
       ELSE IF message = "disconnect"
            THEN [sessions |-> [s \in DOMAIN sessions \ found |-> sessions[s]],
                  input |-> {}, ret |-> TRUE]
            ELSE [sessions |-> sessions, input |-> found, ret |-> TRUE]

\* What one pass of the loop does after the message is taken from the
\* queue.  The thread goes on to wait for the next message, or has a frame
\* left to send, or has left the loop.
RunDone(outcome, m) ==
    step' = Step("run", m.cmd, "", outcome)

\* An exception leaves the while loop: the catch clause is outside it, and
\* the thread finishes.
afterThrow == "finished"

Thrown(m) ==
    /\ runPc' = [runPc EXCEPT !["lok_handler"] = afterThrow]
    /\ UNCHANGED <<ws, wsNew, runFrame>>
    /\ delivered' = {}
    /\ RunDone("thrown", m)
    /\ UNCHANGED _sessions

\* Mutant: the frame is started before the checks.
renderReady_always(lokDoc, views) == TRUE
\* if (!_loKitDocument) return; if (getViewsCount() <= 0) return;
renderReady(lokDoc, views) == lokDoc # "null" /\ Cardinality(views) > 0

\* Document::renderTile and Document::renderCombinedTiles.  failed: the
\* columns whose PNG encoding fails; size: the length of the response.
render(m, failed, size) ==
    IF ~m.ok THEN Thrown(m)
    ELSE /\ delivered' = {}
         /\ UNCHANGED _sessions
         /\ IF renderReady(_loKitDocument, lokViews) /\ Columns(m) \cap failed = {}
            THEN /\ StartSend("lok_handler", Frame("binary", m.cmd, size))
                 /\ RunDone("sent", m)
            ELSE /\ NoSend
                 /\ RunDone("dropped", m)

\* The child- branch.
runChild(m) ==
    LET r == forwardToChild(_sessions, m.id, m.arg)
    IN /\ _sessions' = r.sessions
       /\ delivered' = r.input
       /\ NoSend
       /\ RunDone(IF ~r.ret THEN "notfound"
                  ELSE IF m.arg = "disconnect" THEN "erased" ELSE "input", m)

\* The callback branch.
runCallback(m) ==
    /\ delivered' = CallbackTargets(_sessions, m.n)
    /\ NoSend
    /\ UNCHANGED _sessions
    /\ RunDone(IF delivered' = {} THEN "notfound" ELSE "callback", m)

\* Any other message: "Unexpected tile request".
runOther(m) ==
    /\ delivered' = {}
    /\ NoSend
    /\ UNCHANGED _sessions
    /\ RunDone("unexpected", m)

\* One pass of the loop of Document::run: a message is taken from the queue
\* and handled.
run(failed, size) ==
    /\ exited = "running"
    /\ runPc["lok_handler"] = "idle"
    /\ queue # <<>>
    /\ LET g == get(queue)
       IN /\ queue' = g.queue
          /\ IF IsTile(g.msg) THEN render(g.msg, failed, size)
             ELSE IF g.msg.cmd = "child" THEN runChild(g.msg)
             ELSE IF g.msg.cmd = "callback" THEN runCallback(g.msg)
             ELSE runOther(g.msg)
    /\ viewInfo' = NoViewInfo
    /\ UNCHANGED <<inactive, imgVars, restVars, loadVars, exited, cursors>>

\* ------------------------------------------------- dispatch specification
\* States of the load protocol the dispatch loop is checked from: two
\* sessions of the one document, with nothing loaded yet ("unloaded"), with
\* both sessions loaded ("loaded"), and with the only view unloaded again
\* ("noviews").
RunConfigs == {"unloaded", "loaded", "noviews"}

LoadedAs(k) ==
    /\ document = "U"
    /\ docCount = 1
    /\ usedIds = SessionIds
    /\ _sessions = [s \in SessionIds |->
                      [viewId |-> IF k = "loaded" /\ s = "s2" THEN 1 ELSE 0,
                       closeFrame |-> FALSE,
                       unloaded |-> (k = "noviews" /\ s = "s1")]]
    /\ _mutex = Free
    /\ _isLoading = 0
    /\ _clientViews = (IF k = "loaded" THEN 2 ELSE 0)
    /\ _loKitDocument = (IF k = "unloaded" THEN "null" ELSE "doc")
    /\ _haveDocPassword = FALSE
    /\ _docPassword = ""
    /\ _isDocPasswordProtected = FALSE
    /\ _docPasswordType = "ToView"
    /\ _viewIdToCallbackDescr = (IF k = "loaded" THEN {0, 1} ELSE {})
    /\ lokViews = (IF k = "loaded" THEN {0, 1} ELSE {})
    /\ lokNextViewId = (IF k = "loaded" THEN 2 ELSE IF k = "noviews" THEN 1 ELSE 0)
    /\ lokPassword = NullPassword
    /\ docKind = "plain"
    /\ sent = [s \in SessionIds |-> {}]
    /\ pc = [t \in Callers |-> "idle"]
    /\ args = [t \in Callers |-> NoArgs]
    /\ loads = (IF k = "loaded" THEN 2 ELSE IF k = "noviews" THEN 1 ELSE 0)
    /\ exited = "running"

InitDispatch ==
    /\ InitRun
    /\ \E k \in RunConfigs : LoadedAs(k)
    /\ loadRet = [t \in Callers |-> "none"]
    /\ step = Quiet

\* Messages waiting in the queue while the dispatch loop is checked.
MaxPending == 1

NextDispatch ==
    \/ \E m \in ControlMessages : Len(queue) < MaxPending /\ ControlMessage(m)
    \/ \E v \in ViewIds : Len(queue) < MaxPending /\ ViewCallback(v, "other", NoRect, v)
    \/ Len(queue) < MaxPending /\ broadcastCallbackToClients
    \/ \E failed \in SUBSET TilePositions, size \in FrameSizes : run(failed, size)
    \/ sendFrame("lok_handler")
    \/ \E sid \in SessionIds : SetCloseFrame(sid)

DispatchSpec == InitDispatch /\ [][NextDispatch]_vars

\* The dispatch loop together with a second thread that sends on the
\* control socket.
NextSend ==
    \/ NextDispatch
    \/ \E size \in FrameSizes, bad \in BOOLEAN : alertAllUsers(size, bad)
    \/ sendFrame("alert")

SendSpec == InitDispatch /\ [][NextSend]_vars

\* ---------------------------------------------------- queue specification
\* The queue between its producers (the control socket, the view callbacks
\* with their cursor reports) and the dispatch loop, on a loaded document.

\* The most messages that wait in the queue.
MaxQueue == 3

QueueMessages ==
    {TileMsg(pos, TRUE) : pos \in TilePositions}
        \cup {TileCombineMsg(TRUE), CancelTilesMsg, ChildMsg("s1", "key")}

CursorKinds == {"cursor", "viewcursor"}

InitQueue ==
    /\ InitRun
    /\ LoadedAs("loaded")
    /\ loadRet = [t \in Callers |-> "none"]
    /\ step = Quiet

NextQueue ==
    \/ \E m \in QueueMessages : ControlMessage(m) /\ Len(queue') <= MaxQueue
    \/ \E kind \in CursorKinds, rect \in Rects, jsonViewId \in ViewIds :
          ViewCallback(0, kind, rect, jsonViewId) /\ Len(queue') <= MaxQueue
    \/ run({}, SMALL_MESSAGE_SIZE)

QueueSpec == InitQueue /\ [][NextQueue]_vars

\* ------------------------------------------------- viewinfo specification
\* The `viewinfo:` broadcasts around loads and unloads of the two sessions
\* of one unprotected document.

\* ChildSession: the session becomes inactive.
SetInactive(sid) ==
    /\ exited = "running"
    /\ sid \in DOMAIN _sessions
    /\ sid \notin inactive
    /\ inactive' = inactive \cup {sid}
    /\ viewInfo' = NoViewInfo
    /\ step' = Quiet
    /\ UNCHANGED <<queue, cursors, ws, wsNew, delivered, runPc, runFrame, imgVars, restVars,
                   loadVars, _sessions, exited>>

\* The ChildSession that got the document back from onLoad broadcasts the
\* view info: notifyViewInfo with the view ids of the engine.
loadDocumentNotify ==
    /\ exited = "running"
    /\ step = Step("onLoad.return", "", "", "doc")
    /\ _mutex = Free
    /\ viewInfo' = notifyViewInfo(_sessions, lokViews, inactive)
    /\ step' = Step("notifyViewInfo", "", "", "")
    /\ UNCHANGED <<queue, cursors, ws, wsNew, delivered, runPc, runFrame, imgVars, restVars,
                   inactive, loadVars, _sessions, exited>>

InitViewInfo ==
    /\ InitRun
    /\ LoadedAs("unloaded")
    /\ loadRet = [t \in Callers |-> "none"]
    /\ step = Quiet

NextViewInfo ==
    \/ \E t \in Callers : onLoadCall(t, NoArgs)
    \/ \E t \in Callers : onLoadWake(t)
    \/ \E t \in Callers : onLoadCheck(t)
    \/ \E t \in Callers : LoadFirstOk(t)
    \/ \E t \in Callers : LoadViewOk(t)
    \/ \E t \in Callers : onLoadFinish(t)
    \/ loadDocumentNotify
    \/ \E sid \in SessionIds : onUnload(sid)
    \/ \E sid \in SessionIds : SetCloseFrame(sid)
    \/ \E sid \in SessionIds : SetInactive(sid)

ViewInfoSpec == InitViewInfo /\ [][NextViewInfo]_vars

\* ------------------------------------------------------------ tile images
\* Document::renderTile paints one tile; Document::renderCombinedTiles paints
\* the rectangle around several tiles once and cuts every tile out of it.

\* The tile size in twips and in pixels, the same for every tile of a request.
TileWidth == 2
TileHeight == 2
Width == 2
Height == 2

\* The largest tile position and the most tiles of one tilecombine request.
MaxPos == 2
MaxTiles == 2

Positions == (0..MaxPos) \X (0..MaxPos)
Docs == {"blank", "stripes", "gradient", "margin"}

\* The colour the document shows at a point (in twips).
DocColour(doc, x, y) ==
    CASE doc = "blank" -> 0
      [] doc = "stripes" -> 1 + (x % 2)
      [] doc = "gradient" -> 1 + x + 16 * y
      [] doc = "margin" -> IF x < TileWidth THEN 0 ELSE 1 + x

\* lok::Document::paintPartTile: a buffer of pixW * pixH pixels, row by row,
\* showing the w by h twips of the document at (left, top).
paintPartTile(doc, pixW, pixH, left, top, w, h) ==
    [k \in 1..(pixW * pixH) |->
        DocColour(doc, left + ((((k - 1) % pixW) * w) \div pixW),
                       top + ((((k - 1) \div pixW) * h) \div pixH))]

\* png::encodeSubBufferToPNG: the image of the w by h pixels at
\* (startX, startY) of a buffer that is bufW pixels wide.
encodeSubBufferToPNG(pixmap, startX, startY, w, h, bufW) ==
    [k \in 1..(w * h) |->
        pixmap[(startY + ((k - 1) \div w)) * bufW + startX + ((k - 1) % w) + 1]]

encodeBufferToPNG(pixmap, w, h) == encodeSubBufferToPNG(pixmap, 0, 0, w, h, w)

\* The image of an individual tile request.
renderTileImage(doc, tile) ==
    encodeBufferToPNG(paintPartTile(doc, Width, Height, tile[1], tile[2],
                                    TileWidth, TileHeight),
                      Width, Height)

Least(S) == CHOOSE x \in S : \A y \in S : x <= y
Greatest(S) == CHOOSE x \in S : \A y \in S : y <= x

\* The rectangle around the tiles of a request.
renderArea(tiles) ==
    LET xs == {tiles[i][1] : i \in DOMAIN tiles}
        ys == {tiles[i][2] : i \in DOMAIN tiles}
    IN  [left |-> Least(xs), top |-> Least(ys),
         width |-> Greatest(xs) + TileWidth - Least(xs),
         height |-> Greatest(ys) + TileHeight - Least(ys)]

position_zero(coord, origin, size) == 0
position_up(coord, origin, size) == (coord - origin + size - 1) \div size

\* The place of a tile in the painted rectangle, counted in tiles.
position(coord, origin, size) == (coord - origin) \div size

\* The images of a tilecombine request, one per tile.
renderCombinedImages(doc, tiles) ==
    LET area == renderArea(tiles)
        tilesByX == area.width \div TileWidth
        tilesByY == area.height \div TileHeight
        pixmapWidth == tilesByX * Width
        pixmapHeight == tilesByY * Height
        pixmap == paintPartTile(doc, pixmapWidth, pixmapHeight,
                                area.left, area.top, area.width, area.height)
    IN  [i \in DOMAIN tiles |->
            encodeSubBufferToPNG(pixmap,
                                 position(tiles[i][1], area.left, TileWidth) * Width,
                                 position(tiles[i][2], area.top, TileHeight) * Height,
                                 Width, Height, pixmapWidth)]

renderUnchanged == UNCHANGED <<inactive, restVars, viewInfo, loadVars, _sessions, exited, renderIn, queue, cursors,
                               ws, wsNew, delivered, runPc, runFrame>>

\* An individual tile request for tile i of the request.
renderTile(i) ==
    /\ i \in DOMAIN renderIn.tiles
    /\ renderReady(_loKitDocument, lokViews)
    /\ renderOut' = [renderOut EXCEPT
                       !.single[i] = renderTileImage(renderIn.doc, renderIn.tiles[i])]
    /\ step' = Step("renderTile", "", ToString(i), "")
    /\ renderUnchanged

\* The tilecombine request for all the tiles.
renderCombinedTiles ==
    /\ renderReady(_loKitDocument, lokViews)
    /\ renderOut' = [renderOut EXCEPT
                       !.combined = renderCombinedImages(renderIn.doc, renderIn.tiles)]
    /\ step' = Step("renderCombinedTiles", "", "", "")
    /\ renderUnchanged

RenderRequests ==
    [doc : Docs, tiles : UNION {[1..n -> Positions] : n \in 1..MaxTiles}]

InitRender ==
    /\ InitSend
    /\ LoadedAs("loaded")
    /\ loadRet = [t \in Callers |-> "none"]
    /\ step = Quiet
    /\ renderIn \in RenderRequests
    /\ renderOut = [combined |-> <<>>,
                    single |-> [i \in DOMAIN renderIn.tiles |-> <<>>]]

NextRender ==
    \/ \E i \in 1..MaxTiles : renderTile(i)
    \/ renderCombinedTiles

RenderSpec == InitRender /\ [][NextRender]_vars

\* ---------------------------------------------------------------- lokit_main

\* What lokit_main was started with: noCapabilities, whether LOOL_BIND_MOUNT
\* is set, and whether realpath(loTemplate) differs from loTemplate.  The
\* rest is what it has built so far: the symlinks made, the mode each tree
\* was mirrored in ("stopped" when the walk ended early), the device nodes,
\* the capabilities dropped, and the call that failed.
NewJail(noCapabilities, bindMount, resolved) ==
    [noCapabilities |-> noCapabilities, bindMount |-> bindMount,
     resolved |-> resolved, symlinks |-> 0, bLoopMounted |-> FALSE,
     sys |-> "none", lo |-> "none", nodes |-> 0, caps |-> 0, failed |-> ""]

\* How a walk of linkOrCopy ends: every entry visited, link() failed, the
\* callback returned 1 (stat or utime failed, unreadable entry), or nftw
\* itself returned -1.
WalkOutcomes == {"ok", "link", "stop", "nftw"}

\* dropCapability is called for these, in this order.
Capabilities == <<"CAP_SYS_CHROOT", "CAP_MKNOD", "CAP_FOWNER">>

documentUnchanged ==
    /\ viewInfo' = NoViewInfo
    /\ UNCHANGED <<queue, cursors, ws, wsNew, delivered, runPc, runFrame, imgVars,
                   inactive, loadVars, _sessions>>

mainUnchanged ==
    /\ documentUnchanged
    /\ UNCHANGED <<mirror, sideVars>>

\* The call goes on to the next one.
Proceed(call, arg, next, built) ==
    /\ mainPc' = next
    /\ jail' = built
    /\ step' = Step(call, "", arg, "ok")
    /\ UNCHANGED exited

\* std::_Exit(code) inside the call.
ExitWith(call, arg, code) ==
    /\ jail' = [jail EXCEPT !.failed = call]
    /\ exited' = code
    /\ step' = Step(call, "", arg, "failed")
    /\ UNCHANGED mainPc

\* The call throws: one of the two catch clauses of lokit_main logs the
\* exception, and lokit_main ends with std::_Exit(Application::EXIT_OK).
Caught(call, arg) == ExitWith(call, arg, "EXIT_OK")

\* File(jailPath).createDirectories()
createDirectories(ok) ==
    /\ exited = "running"
    /\ mainPc = "start"
    /\ IF ok
       THEN Proceed("createDirectories", "",
                    IF jail.noCapabilities THEN "lok_init" ELSE "symlink", jail)
       ELSE Caught("createDirectories", "")
    /\ mainUnchanged

\* symlinkPathToJail for loTemplate, then for its realpath when that differs.
symlinkPathToJail(ok) ==
    /\ exited = "running"
    /\ mainPc = "symlink"
    /\ IF ok
       THEN Proceed("symlinkPathToJail", ToString(jail.symlinks),
                    IF jail.resolved /\ jail.symlinks = 0 THEN "symlink" ELSE "mount",
                    [jail EXCEPT !.symlinks = @ + 1])
       ELSE Caught("symlinkPathToJail", ToString(jail.symlinks))
    /\ mainUnchanged

\* bLoopMounted = !system("loolmount ..."), only when LOOL_BIND_MOUNT is set.
loolmount(ok) ==
    /\ exited = "running"
    /\ mainPc = "mount"
    /\ Proceed("loolmount", "", "linkOrCopy",
               [jail EXCEPT !.bLoopMounted = jail.bindMount /\ ok])
    /\ mainUnchanged

\* linkOrCopy(sysTemplate, ...) and then linkOrCopy(loTemplate, ...): only a
\* failed link() ends the process, any other end of the walk goes on.
linkOrCopy(outcome) ==
    /\ exited = "running"
    /\ mainPc = "linkOrCopy"
    /\ LET tree == IF jail.sys = "none" THEN "sys" ELSE "lo"
           mode == IF outcome # "ok" THEN "stopped"
                   ELSE IF tree = "lo" THEN "COPY_LO"
                   ELSE IF jail.bLoopMounted THEN "COPY_NO_USR" ELSE "COPY_ALL"
       IN IF outcome = "link"
          THEN ExitWith("link", tree, "EXIT_SOFTWARE")
          ELSE Proceed("linkOrCopy", tree,
                       IF tree = "sys" THEN "linkOrCopy" ELSE "copyTo",
                       IF tree = "sys" THEN [jail EXCEPT !.sys = mode]
                       ELSE [jail EXCEPT !.lo = mode])
    /\ mainUnchanged

\* networkFile.copyTo(etcPath) for the name-resolution files.
copyTo(ok) ==
    /\ exited = "running"
    /\ mainPc = "copyTo"
    /\ IF ok THEN Proceed("copyTo", "", "mknod", jail) ELSE Caught("copyTo", "")
    /\ mainUnchanged

\* The two device nodes: a failed mknod is logged and nothing else.
mknod(random, urandom) ==
    /\ exited = "running"
    /\ mainPc = "mknod"
    /\ Proceed("mknod", "", "chroot",
               [jail EXCEPT !.nodes = (IF random THEN 1 ELSE 0)
                                      + (IF urandom THEN 1 ELSE 0)])
    /\ mainUnchanged

chroot(ok) ==
    /\ exited = "running"
    /\ mainPc = "chroot"
    /\ IF ok THEN Proceed("chroot", "", "chdir", jail)
       ELSE ExitWith("chroot", "", "EXIT_SOFTWARE")
    /\ mainUnchanged

chdir(ok) ==
    /\ exited = "running"
    /\ mainPc = "chdir"
    /\ IF ok THEN Proceed("chdir", "", "dropCapability", jail)
       ELSE ExitWith("chdir", "", "EXIT_SOFTWARE")
    /\ mainUnchanged

\* dropCapability: cap_get_proc, cap_set_flag or cap_set_proc failing ends
\* in std::_Exit(1).
dropCapability(ok) ==
    /\ exited = "running"
    /\ mainPc = "dropCapability"
    /\ IF ok
       THEN Proceed("dropCapability", Capabilities[jail.caps + 1],
                    IF jail.caps + 1 = Len(Capabilities) THEN "lok_init"
                    ELSE "dropCapability",
                    [jail EXCEPT !.caps = @ + 1])
       ELSE ExitWith("dropCapability", Capabilities[jail.caps + 1], "1")
    /\ mainUnchanged

\* lok_init of the unit test hook, else lok_init_2.
lok_init(ok) ==
    /\ exited = "running"
    /\ mainPc = "lok_init"
    /\ IF ok THEN Proceed("lok_init", "", "connect", jail)
       ELSE ExitWith("lok_init", "", "EXIT_SOFTWARE")
    /\ mainUnchanged

\* The websocket to the controller: its constructor throws when the
\* connection fails.
WebSocket(ok) ==
    /\ exited = "running"
    /\ mainPc = "connect"
    /\ IF ok THEN Proceed("WebSocket", "", "serving", jail)
       ELSE Caught("WebSocket", "")
    /\ mainUnchanged

\* IoUtil::SocketProcessor returns (the socket closed, or the termination
\* flag was seen): "Process finished", std::_Exit(Application::EXIT_OK).
ProcessFinished ==
    /\ exited = "running"
    /\ mainPc = "serving"
    /\ exited' = "EXIT_OK"
    /\ step' = Step("SocketProcessor", "", "", "ok")
    /\ UNCHANGED <<mainPc, jail>>
    /\ mainUnchanged

InitJail ==
    /\ mainPc = "start"
    /\ jail \in {NewJail(n, b, r) : n \in BOOLEAN, b \in BOOLEAN, r \in BOOLEAN}
    /\ mirror = NoMirror
    /\ InitSide
    /\ InitSocket
    /\ renderIn = NoRequest
    /\ renderOut = NoImages
    /\ InitDocument

NextJail ==
    \/ \E ok \in BOOLEAN : createDirectories(ok)
    \/ \E ok \in BOOLEAN : symlinkPathToJail(ok)
    \/ \E ok \in BOOLEAN : loolmount(ok)
    \/ \E outcome \in WalkOutcomes : linkOrCopy(outcome)
    \/ \E ok \in BOOLEAN : copyTo(ok)
    \/ \E random \in BOOLEAN, urandom \in BOOLEAN : mknod(random, urandom)
    \/ \E ok \in BOOLEAN : chroot(ok)
    \/ \E ok \in BOOLEAN : chdir(ok)
    \/ \E ok \in BOOLEAN : dropCapability(ok)
    \/ \E ok \in BOOLEAN : lok_init(ok)
    \/ \E ok \in BOOLEAN : WebSocket(ok)
    \/ mainPc = "serving" /\ \E sid \in SessionIds, url \in Urls : SessionMessage(sid, url)
    \/ mainPc = "serving" /\ \E sid \in SessionIds : SetCloseFrame(sid)
    \/ mainPc = "serving" /\ TerminationPoll
    \/ ProcessFinished

JailSpec == InitJail /\ [][NextJail]_vars

\* ------------------------------------------------- mirror specification

\* linkOrCopy(source, destination, type) on an empty destination.
linkOrCopyTree ==
    /\ mirror.walk = "none"
    /\ LET r == nftw(mirror.src, mirror.type, mirror.dnr, mirror.dst, {}, 1)
       IN mirror' = [mirror EXCEPT !.dst = r.dst, !.walk = r.walk]
    /\ step' = Step("linkOrCopy", "", mirror.type, mirror'.walk)
    /\ UNCHANGED <<mainPc, jail, sideVars, exited>>
    /\ documentUnchanged

InitMirror ==
    /\ mirror \in {[NoMirror EXCEPT !.src = t, !.type = m, !.dnr = d] :
                      t \in SourceTrees, m \in LinkOrCopyTypes, d \in {0, 1, 7, 12}}
    /\ mirror.dnr # 0 => mirror.src[mirror.dnr].kind = "dir"
    /\ mainPc = "linkOrCopy"
    /\ jail = NewJail(FALSE, FALSE, FALSE)
    /\ InitSide
    /\ InitSocket
    /\ renderIn = NoRequest
    /\ renderOut = NoImages
    /\ InitDocument

NextMirror == linkOrCopyTree

MirrorSpec == InitMirror /\ [][NextMirror]_vars

\* ------------------------------------------------------ locks specification

Do(what, on) == [do |-> what, on |-> on]

\* The body under a lock of the mutex m.
Locked(m, body) == <<Do("lock", m)>> \o body \o <<Do("unlock", m)>>
\* An access to the map _sessions, a call into the engine document.
Access(resource) == <<Do("enter", resource), Do("leave", resource)>>

\* An engine call, with the callbacks the engine raises before it returns.
EngineCall(callbacks) ==
    <<Do("enter", "lok::Document")>> \o callbacks \o <<Do("leave", "lok::Document")>>

\* ViewCallback and broadcastCallbackToClients: Document::_mutex, and under
\* it the put on the queue, which takes the lock of the queue.
CallbackLocks == Locked("_mutex", Locked("queue", <<>>))

notifyViewInfoLocks_nested ==
    Locked("_mutex", Locked("getLock", <<>>))
\* notifyViewInfo: getViewInfo under Document::_mutex, getViewColors under
\* the mutex of the engine document, then the loop over the sessions under
\* Document::_mutex.
notifyViewInfoLocks ==
    Locked("_mutex", <<>>) \o Locked("getLock", <<>>) \o Locked("_mutex", <<>>)

\* The operations with the callbacks of the engine and the lock of the
\* queue in them; "" for every other operation.
ProgramWithCallbacks(op) ==
    IF op = "put" THEN Locked("queue", <<>>)
    ELSE IF op = "get" THEN Locked("queue", <<>>)
    ELSE IF op = "renderTile.callback" THEN Locked("getLock", EngineCall(CallbackLocks))
    \* onLoad: the wait under _mutex; load: documentLoad
    \* under the lock of lok::Office, the lock of lok::Document taken before
    \* that one is released, registerCallback; then ++_clientViews under
    \* _mutex
    ELSE IF op = "onLoad"
    THEN Locked("_mutex", <<>>)
         \o <<Do("lock", "_loKit")>> \o EngineCall(CallbackLocks)
         \o <<Do("lock", "getLock"), Do("unlock", "_loKit")>>
         \o EngineCall(CallbackLocks)
         \o <<Do("unlock", "getLock")>>
         \o Locked("_mutex", <<>>)
    \* onUnload: removeCursorPosition, destroyView, notifyViewInfo
    ELSE IF op = "onUnload.callback"
    THEN Locked("queue", <<>>)
         \o Locked("getLock", EngineCall(CallbackLocks))
         \o notifyViewInfoLocks
    ELSE <<>>

Program_renderUnlocked(op) ==
    IF op = "createSession" THEN Locked("_mutex", Access("_sessions"))
    ELSE IF op = "purgeSessions"
    THEN <<Do("try_lock", "_mutex")>> \o Access("_sessions") \o <<Do("unlock", "_mutex")>>
    ELSE IF op = "forwardToChild" THEN Access("_sessions")
    ELSE IF op = "callback" THEN Access("_sessions")
    ELSE IF op \in {"renderTile", "renderCombinedTiles"} THEN Access("lok::Document")
    ELSE IF op = "load"
    THEN Access("_sessions") \o Locked("getLock", Access("lok::Document"))
    ELSE Locked("getLock", Access("lok::Document"))
         \o Locked("_mutex", Access("_sessions"))
         \o Locked("getLock", Access("lok::Document"))
         \o Locked("_mutex", Access("_sessions"))

\* What each operation does with the two mutexes (Document::_mutex, the
\* mutex of lok::Document::getLock), the map _sessions and the engine
\* document, in program order.
Program(op) ==
    IF ProgramWithCallbacks(op) # <<>> THEN ProgramWithCallbacks(op)
    ELSE IF op = "createSession" THEN Locked("_mutex", Access("_sessions"))
    ELSE IF op = "purgeSessions"
    THEN <<Do("try_lock", "_mutex")>> \o Access("_sessions") \o <<Do("unlock", "_mutex")>>
    ELSE IF op = "forwardToChild" THEN Access("_sessions")
    ELSE IF op = "callback" THEN Access("_sessions")
    ELSE IF op \in {"renderTile", "renderCombinedTiles"}
    THEN Locked("getLock", Access("lok::Document"))
    ELSE IF op = "load"
    THEN Access("_sessions") \o Locked("getLock", Access("lok::Document"))
    \* onUnload, then notifyViewInfo: getViewInfo, getViewColors, the loop
    \* over the sessions
    ELSE Locked("getLock", Access("lok::Document"))
         \o Locked("_mutex", Access("_sessions"))
         \o Locked("getLock", Access("lok::Document"))
         \o Locked("_mutex", Access("_sessions"))

\* The operations each thread runs.
Operations(t) ==
    IF t = "main" THEN {"createSession", "purgeSessions"}
    ELSE IF t = "lok_handler"
    THEN {"forwardToChild", "callback", "renderTile", "renderCombinedTiles"}
    ELSE {"load", "onUnload"}

Instruction(t) == Program(threads[t].op)[threads[t].ip]
Owned(m) == \E t \in LockThreads : m \in threads[t].locks

\* Document::_mutex is the variable _mutex as well.
Owner(m, t) == _mutex' = IF m = "_mutex" THEN t ELSE _mutex

lockUnchanged ==
    /\ viewInfo' = NoViewInfo
    /\ UNCHANGED <<mainPc, jail, mirror, TerminationFlag, exited, queue, cursors, ws, wsNew, delivered, runPc, runFrame, imgVars, inactive, docVars,
                   _sessions, _isLoading, _clientViews, _loKitDocument, pwVars,
                   _viewIdToCallbackDescr, lokVars, docKind, sent, callVars>>

\* The instruction is done: the next one, or the operation returns.
Advance(t, locks, inside) ==
    threads' = [threads EXCEPT ![t] =
                   IF threads[t].ip = Len(Program(threads[t].op)) THEN Idle
                   ELSE [op |-> threads[t].op, ip |-> threads[t].ip + 1,
                         locks |-> locks, inside |-> inside]]

\* A thread starts one of its operations.
Call(t, op) ==
    /\ threads[t] = Idle
    /\ threads' = [threads EXCEPT ![t] = [Idle EXCEPT !.op = op, !.ip = 1]]
    /\ step' = Step("call", t, op, "")
    /\ UNCHANGED _mutex
    /\ lockUnchanged

\* std::unique_lock<std::mutex> lock(m): blocks while another thread owns m.
lock(t) ==
    /\ threads[t].op # ""
    /\ Instruction(t).do = "lock"
    /\ ~Owned(Instruction(t).on)
    /\ Advance(t, threads[t].locks \cup {Instruction(t).on}, "")
    /\ Owner(Instruction(t).on, t)
    /\ step' = Step("lock", t, Instruction(t).on, "")
    /\ lockUnchanged

\* lock.try_lock(): purgeSessions returns -1 when another thread owns m.
try_lock(t) ==
    /\ threads[t].op # ""
    /\ Instruction(t).do = "try_lock"
    /\ IF Owned(Instruction(t).on)
       THEN threads' = [threads EXCEPT ![t] = Idle] /\ UNCHANGED _mutex
       ELSE /\ Advance(t, threads[t].locks \cup {Instruction(t).on}, "")
            /\ Owner(Instruction(t).on, t)
    /\ step' = Step("try_lock", t, Instruction(t).on, ToString(~Owned(Instruction(t).on)))
    /\ lockUnchanged

unlock(t) ==
    /\ threads[t].op # ""
    /\ Instruction(t).do = "unlock"
    /\ Advance(t, threads[t].locks \ {Instruction(t).on}, "")
    /\ Owner(Instruction(t).on, Free)
    /\ step' = Step("unlock", t, Instruction(t).on, "")
    /\ lockUnchanged

\* The thread gets into the find, emplace, erase or iteration of the map,
\* or into the call of the engine document.
Enter(t) ==
    /\ threads[t].op # ""
    /\ Instruction(t).do = "enter"
    /\ Advance(t, threads[t].locks, Instruction(t).on)
    /\ step' = Step("enter", t, Instruction(t).on, "")
    /\ UNCHANGED _mutex
    /\ lockUnchanged

\* ... and out of it.
Leave(t) ==
    /\ threads[t].op # ""
    /\ Instruction(t).do = "leave"
    /\ Advance(t, threads[t].locks, "")
    /\ step' = Step("leave", t, Instruction(t).on, "")
    /\ UNCHANGED _mutex
    /\ lockUnchanged

InitLock ==
    /\ InitRun
    /\ LoadedAs("loaded")
    /\ loadRet = [t \in Callers |-> "none"]
    /\ step = Quiet

NextLock ==
    \/ \E t \in LockThreads : \E op \in Operations(t) : Call(t, op)
    \/ \E t \in LockThreads : lock(t)
    \/ \E t \in LockThreads : try_lock(t)
    \/ \E t \in LockThreads : unlock(t)
    \/ \E t \in LockThreads : Enter(t)
    \/ \E t \in LockThreads : Leave(t)

LockSpec == InitLock /\ [][NextLock]_vars

\* ------------------------------------------------- order specification
\* The control-socket handler and the dispatch loop from the start of the
\* process: session commands, queued commands, and Document::run.
OrderMessages ==
    {ChildMsg(id, payload) : id \in SessionIds, payload \in ChildPayloads}
        \cup {TileMsg(0, TRUE), CancelTilesMsg}

InitOrder ==
    /\ Init
    /\ docKind = "plain"

NextOrder ==
    \/ \E sid \in SessionIds, url \in Urls : SessionMessage(sid, url)
    \/ \E m \in OrderMessages : ControlMessage(m) /\ Len(queue') <= MaxQueue
    \/ run({}, SMALL_MESSAGE_SIZE)

OrderSpec == InitOrder /\ [][NextOrder]_vars

\* ---------------------------------------------- callback specification
\* The callbacks of the two views of a loaded document, with tile and
\* child- messages in between.
CallbackKinds == {"cursor", "other"}
CallbackMessages == {TileMsg(0, TRUE), ChildMsg("s2", "key")}

NextCallback ==
    \/ \E m \in CallbackMessages : ControlMessage(m) /\ Len(queue') <= MaxQueue
    \/ \E v \in ViewIds, kind \in CallbackKinds, rect \in Rects :
          ViewCallback(v, kind, rect, v) /\ Len(queue') <= MaxQueue
    \/ broadcastCallbackToClients /\ Len(queue') <= MaxQueue
    \/ run({}, SMALL_MESSAGE_SIZE)
    \/ \E sid \in SessionIds : SetCloseFrame(sid)

CallbackSpec == InitQueue /\ [][NextCallback]_vars

\* ------------------------------------------- termination specification
\* The engine's callbacks before and after the termination flag is set.

\* TerminationFlag = true: by the control-socket handler or its poll when
\* the last session is gone, or by the termination signal.
SetTerminationFlag ==
    /\ exited = "running"
    /\ ~TerminationFlag
    /\ TerminationFlag' = TRUE
    /\ step' = Step("TerminationFlag", "", "", "")
    /\ UNCHANGED <<mainPc, jail, mirror, threads, exited>>
    /\ documentUnchanged

InitTermination ==
    /\ InitRun
    /\ \E k \in {"unloaded", "loaded"} : LoadedAs(k)
    /\ loadRet = [t \in Callers |-> "none"]
    /\ step = Quiet

\* The handler and the dispatch loop look at the flag before anything else
\* (if (TerminationFlag), while (!_stop && !TerminationFlag)).
NextTermination ==
    \/ SetTerminationFlag
    \/ \E v \in ViewIds, kind \in CursorKinds \cup {"other"}, rect \in Rects, jsonViewId \in ViewIds :
          ViewCallback(v, kind, rect, jsonViewId) /\ Len(queue') <= MaxPending
    \/ broadcastCallbackToClients /\ Len(queue') <= MaxPending
    \/ \E nType \in PasswordTypes : GlobalCallback(nType)
    \/ ~TerminationFlag /\ run({}, SMALL_MESSAGE_SIZE)

TerminationSpec == InitTermination /\ [][NextTermination]_vars

\* --------------------------------------------- password specification
\* The password callbacks of the load attempts on a file that is not
\* loaded yet.

\* load(), first load, up to the call of documentLoad: the password of the
\* load command is stored, the document is taken to be unprotected.
\* ---------------------------------------------- unload specification
\* Sessions load and unload while the engine reports the cursors of the
\* views; the dispatch loop takes the callback messages off the queue.
NextUnload ==
    \/ NextViewInfo
    \/ \E v \in ViewIds, rect \in Rects, jsonViewId \in ViewIds :
          ViewCallback(v, "viewcursor", rect, jsonViewId) /\ Len(queue') <= MaxPending
    \/ run({}, SMALL_MESSAGE_SIZE)

UnloadSpec == InitViewInfo /\ [][NextUnload]_vars

\* ------------------------------------------- tilecombine specification
\* Document::renderCombinedTiles with its response: the paintPartTile calls
\* it makes, the image sizes it records on the tiles of the request and the
\* frames it sends.

RECURSIVE pngBytes(_)
\* The bytes the encoder appends to output for an image: the longer the
\* less uniform the image is (one byte per run of equal pixels).
pngBytes(image) ==
    IF Len(image) <= 1 THEN image
    ELSE LET rest == pngBytes(Tail(image))
         IN IF image[1] = image[2] THEN rest ELSE <<image[1]>> \o rest

RECURSIVE Concat(_)
Concat(seqs) == IF seqs = <<>> THEN <<>> ELSE Head(seqs) \o Concat(Tail(seqs))

\* TileCombined::serialize("tilecombine:") + "\n": the header line, with
\* the image sizes recorded on the tiles.
serialize(tiles) == <<"tilecombine:", [i \in DOMAIN tiles |-> tiles[i][3]]>>

setImgSize_first(tiles, tileIndex, imgSize) ==
    [tiles EXCEPT ![1] = <<@[1], @[2], imgSize>>]
\* tiles[tileIndex++].setImgSize(imgSize)
setImgSize(tiles, tileIndex, imgSize) ==
    [tiles EXCEPT ![tileIndex] = <<@[1], @[2], imgSize>>]

RECURSIVE encodeTiles(_, _, _)
\* The loop over tileRecs, from tile number tileIndex on: the tiles with
\* the sizes of the images recorded.
encodeTiles(tiles, images, tileIndex) ==
    IF tileIndex > Len(images) THEN tiles
    ELSE encodeTiles(setImgSize(tiles, tileIndex, Len(pngBytes(images[tileIndex]))),
                     images, tileIndex + 1)

NoResponse == [combined |-> <<>>, single |-> <<>>, painted |-> <<>>, frames |-> <<>>]

\* The whole of renderCombinedTiles for the request renderIn.  failAt: the
\* number of the tile whose encoding fails, 0 when none does.
renderCombinedTilesResponse(failAt) ==
    /\ exited = "running"
    /\ renderOut = NoResponse
    /\ failAt <= Len(renderIn.tiles)
    /\ LET tiles == renderIn.tiles
           area == renderArea(tiles)
           images == renderCombinedImages(renderIn.doc, tiles)
           encoded == IF failAt = 0 THEN images ELSE SubSeq(images, 1, failAt - 1)
           sized == encodeTiles(tiles, encoded, 1)
           output == Concat([i \in DOMAIN encoded |-> pngBytes(encoded[i])])
           response == [type |-> "binary", header |-> serialize(sized), payload |-> output]
           length == 1 + Len(output)
       IN IF ~renderReady(_loKitDocument, lokViews)
          THEN /\ renderOut' = [renderOut EXCEPT !.frames = <<>>]
               /\ UNCHANGED renderIn
               /\ step' = Step("renderCombinedTiles", "", "", "not ready")
          ELSE /\ renderIn' = [renderIn EXCEPT !.tiles = sized]
               /\ renderOut' =
                     [combined |-> encoded, single |-> <<>>, painted |-> <<area>>,
                      frames |-> IF failAt # 0 THEN <<>>
                                 ELSE (IF needsNextMessage(length)
                                       THEN <<[type |-> "text", header |-> "nextmessage",
                                               payload |-> <<>>]>>
                                       ELSE <<>>) \o <<response>>]
               /\ step' = Step("renderCombinedTiles", "", "",
                               IF failAt # 0 THEN "failed" ELSE "sent")
    /\ UNCHANGED <<inactive, restVars, viewInfo, loadVars, _sessions, exited, queue, cursors,
                   ws, wsNew, delivered, runPc, runFrame>>

InitCombine ==
    /\ InitSend
    /\ \E k \in {"loaded", "noviews"} : LoadedAs(k)
    /\ loadRet = [t \in Callers |-> "none"]
    /\ step = Quiet
    /\ \E request \in RenderRequests :
          renderIn = [request EXCEPT !.tiles = [i \in DOMAIN @ |-> <<@[i][1], @[i][2], 0>>]]
    /\ renderOut = NoResponse

NextCombine == \E failAt \in 0..MaxTiles : renderCombinedTilesResponse(failAt)

CombineSpec == InitCombine /\ [][NextCombine]_vars

\* --------------------------------------------- shutdown specification
\* ~Document and the loop of Document::run with its two looks at _stop and
\* TerminationFlag.

EofMsg == Msg("eof", "", "", 0, TRUE)

_stop_never(pcMain) == FALSE
\* std::atomic<bool> _stop: false until ~Document sets it.
_stop(pcMain) == pcMain \in {"~Document.put", "~Document.join", "joined"}

dtorUnchanged ==
    /\ delivered' = {}
    /\ viewInfo' = NoViewInfo
    /\ UNCHANGED <<jail, mirror, sideVars, cursors, ws, wsNew, runPc, runFrame, imgVars,
                   inactive, loadVars, _sessions, exited>>

\* ~Document: _stop = true;
DocumentDtorStop ==
    /\ exited = "running"
    /\ mainPc = "serving"
    /\ mainPc' = "~Document.put"
    /\ step' = Step("~Document", "", "_stop", "")
    /\ UNCHANGED queue
    /\ dtorUnchanged

\* _tileQueue->put("eof");
DocumentDtorPut ==
    /\ exited = "running"
    /\ mainPc = "~Document.put"
    /\ mainPc' = "~Document.join"
    /\ queue' \in put(queue, cursors, EofMsg)
    /\ step' = Step("~Document", "", "put", "")
    /\ dtorUnchanged

\* _callbackThread.join(): returns when run has returned.
DocumentDtorJoin ==
    /\ exited = "running"
    /\ mainPc = "~Document.join"
    /\ runPc["lok_handler"] = "finished"
    /\ mainPc' = "joined"
    /\ step' = Step("~Document", "", "join", "")
    /\ UNCHANGED queue
    /\ dtorUnchanged

loopUnchanged ==
    /\ delivered' = {}
    /\ viewInfo' = NoViewInfo
    /\ UNCHANGED <<ws, wsNew, runFrame, imgVars, restVars, inactive, loadVars, _sessions,
                   exited, cursors>>

\* The loop has passed while (!_stop && !TerminationFlag) and waits in
\* _tileQueue->get() on the empty queue.
runBlock ==
    /\ exited = "running"
    /\ runPc["lok_handler"] = "idle"
    /\ ~_stop(mainPc) /\ ~TerminationFlag
    /\ queue = <<>>
    /\ runPc' = [runPc EXCEPT !["lok_handler"] = "get"]
    /\ step' = Step("run.get", "", "", "")
    /\ UNCHANGED queue
    /\ loopUnchanged

\* get() has a message for the waiting loop, and neither flag is set: the
\* loop goes on to handle it.
runWake ==
    /\ exited = "running"
    /\ runPc["lok_handler"] = "get"
    /\ ~_stop(mainPc) /\ ~TerminationFlag
    /\ queue # <<>>
    /\ runPc' = [runPc EXCEPT !["lok_handler"] = "idle"]
    /\ step' = Step("run.wake", "", "", "")
    /\ UNCHANGED queue
    /\ loopUnchanged

\* The loop ends: on a flag at the while, or behind get() with the message
\* it has taken, on a flag (the flag came up after the while; the message
\* is dropped) or because the message is `eof`.
runExit(dequeued) ==
    /\ exited = "running"
    /\ runPc["lok_handler"] \in {"idle", "get"}
    /\ IF dequeued
       THEN /\ queue # <<>>
            /\ _stop(mainPc) \/ TerminationFlag \/ get(queue).msg = EofMsg
            /\ queue' = get(queue).queue
       ELSE /\ runPc["lok_handler"] = "idle"
            /\ _stop(mainPc) \/ TerminationFlag
            /\ UNCHANGED queue
    /\ runPc' = [runPc EXCEPT !["lok_handler"] = "finished"]
    /\ step' = Step("run.exit", "", "", IF dequeued THEN "discarded" ELSE "")
    /\ loopUnchanged

\* A pass of the loop that handles a message.
runMessage ==
    /\ ~_stop(mainPc) /\ ~TerminationFlag
    /\ queue # <<>>
    /\ get(queue).msg # EofMsg
    /\ \E size \in FrameSizes : run({}, size)

ShutdownMessages == {TileMsg(0, TRUE), TileMsg(1, FALSE), ChildMsg("s2", "key")}

runStep == runBlock \/ runWake \/ (\E dequeued \in BOOLEAN : runExit(dequeued))
              \/ runMessage \/ sendFrame("lok_handler")
dtorStep == DocumentDtorStop \/ DocumentDtorPut \/ DocumentDtorJoin

NextShutdown ==
    \/ \E m \in ShutdownMessages :
          mainPc = "serving" /\ ControlMessage(m) /\ Len(queue') <= MaxPending
    \/ broadcastCallbackToClients /\ Len(queue') <= MaxPending + 1
    \/ SetTerminationFlag
    \/ runStep
    \/ dtorStep

ShutdownSpec == InitQueue /\ [][NextShutdown]_vars
\* The dispatch thread and the thread in the destructor are scheduled.
ShutdownFairSpec == ShutdownSpec /\ WF_vars(runStep) /\ WF_vars(dtorStep)

\* --------------------------------------------- deadlock specification
\* The three kinds of threads with every lock they take: the handler of the
\* control socket puts on the queue, the dispatch loop gets from it and
\* renders, the session threads load and unload, and the engine raises its
\* callbacks inside their calls.
OperationsWithCallbacks(t) ==
    IF t = "main" THEN {"purgeSessions", "put"}
    ELSE IF t = "lok_handler" THEN {"get", "renderTile.callback"}
    ELSE {"onLoad", "onUnload.callback"}

NextDeadlock ==
    \/ \E t \in LockThreads : \E op \in OperationsWithCallbacks(t) : Call(t, op)
    \/ \E t \in LockThreads : lock(t)
    \/ \E t \in LockThreads : try_lock(t)
    \/ \E t \in LockThreads : unlock(t)
    \/ \E t \in LockThreads : Enter(t)
    \/ \E t \in LockThreads : Leave(t)

DeadlockSpec == InitLock /\ [][NextDeadlock]_vars

\* ------------------------------------------------ slice specification
\* The arithmetic of renderCombinedTiles for tiles of any size at any
\* positions: the pixmap it allocates and the part of it that it hands to
\* the encoder for each tile.

\* The largest coordinate of a tile, the largest tile size in twips and the
\* largest tile size in pixels.
MaxCoord == 3
MaxTileSize == 3
MaxPixels == 2

\* renderArea: the first rectangle, extended by each of the others.
renderAreaOf(tiles, tileWidth, tileHeight) ==
    LET xs == {tiles[i][1] : i \in DOMAIN tiles}
        ys == {tiles[i][2] : i \in DOMAIN tiles}
    IN  [left |-> Least(xs), top |-> Least(ys),
         width |-> Greatest(xs) + tileWidth - Least(xs),
         height |-> Greatest(ys) + tileHeight - Least(ys)]

\* pixmapWidth, pixmapHeight and pixmapSize, and for each tile the
\* arguments of encodeSubBufferToPNG.
renderCombinedSlices(request) ==
    LET area == renderAreaOf(request.tiles, request.tileWidth, request.tileHeight)
        tilesByX == area.width \div request.tileWidth
        tilesByY == area.height \div request.tileHeight
        pixmapWidth == tilesByX * request.width
        pixmapHeight == tilesByY * request.height
    IN [pixmapWidth |-> pixmapWidth,
        pixmapHeight |-> pixmapHeight,
        pixmapSize |-> 4 * pixmapWidth * pixmapHeight,
        slices |-> [i \in DOMAIN request.tiles |->
                      [startX |-> position(request.tiles[i][1], area.left, request.tileWidth)
                                      * request.width,
                       startY |-> position(request.tiles[i][2], area.top, request.tileHeight)
                                      * request.height,
                       width |-> request.width,
                       height |-> request.height]]]

\* renderCombinedTiles up to the calls of the encoder.
renderCombinedTilesSlices ==
    /\ exited = "running"
    /\ renderOut = NoResponse
    /\ IF renderReady(_loKitDocument, lokViews)
       THEN /\ renderOut' = [NoResponse EXCEPT
                               !.painted = <<renderCombinedSlices(renderIn)>>]
            /\ step' = Step("renderCombinedTiles", "", "", "encoding")
       ELSE /\ renderOut' = [NoResponse EXCEPT !.single = <<"not ready">>]
            /\ step' = Step("renderCombinedTiles", "", "", "not ready")
    /\ UNCHANGED <<inactive, restVars, viewInfo, loadVars, _sessions, exited, renderIn, queue,
                   cursors, ws, wsNew, delivered, runPc, runFrame>>

SliceRequests ==
    [doc : {"blank"},
     tiles : UNION {[1..n -> (0..MaxCoord) \X (0..MaxCoord)] : n \in 1..MaxTiles},
     tileWidth : 1..MaxTileSize, tileHeight : 1..MaxTileSize,
     width : 1..MaxPixels, height : 1..MaxPixels]

InitSlice ==
    /\ InitSend
    /\ \E k \in {"loaded", "noviews"} : LoadedAs(k)
    /\ loadRet = [t \in Callers |-> "none"]
    /\ step = Quiet
    /\ renderIn \in SliceRequests
    /\ renderOut = NoResponse

NextSlice == renderCombinedTilesSlices

SliceSpec == InitSlice /\ [][NextSlice]_vars

\* ------------------------------------------ descriptor specification
\* load() with render options that are no JSON, or a user name that
\* URI::decode rejects: the view exists (documentLoad or createView has
\* returned) when Parser::parse or URI::decode throws, before setViewId and
\* the emplace of the CallbackDescriptor.  onLoad catches the exception and
\* returns nullptr, leaving _isLoading as it is.
LoadThrows(t) ==
    /\ exited = "running"
    /\ pc[t] = "load"
    /\ t \in DOMAIN _sessions
    /\ IF _loKitDocument = "null"
       THEN LET r == documentLoad(docKind, FirstLoadState(t))
            IN /\ r.ok
               /\ _haveDocPassword' = r.ps.have
               /\ _docPassword' = r.ps.pw
               /\ _isDocPasswordProtected' = r.ps.protected
               /\ _docPasswordType' = r.ps.ptype
               /\ _loKitDocument' = "doc"
               /\ lokViews' = {lokNextViewId}
               /\ lokPassword' = r.with
       ELSE /\ ViewLoadFrame(args[t].have, args[t].pw) = ""
            /\ lokViews' = lokViews \cup {lokNextViewId}
            /\ UNCHANGED <<pwVars, _loKitDocument, lokPassword>>
    /\ lokNextViewId' = lokNextViewId + 1
    /\ pc' = [pc EXCEPT ![t] = "idle"]
    /\ args' = [args EXCEPT ![t] = NoArgs]
    /\ loadRet' = [loadRet EXCEPT ![t] = "none"]
    /\ step' = Step("onLoad.return", t, "exception", "null")
    /\ viewInfo' = NoViewInfo
    /\ UNCHANGED <<runVars, docVars, _sessions, _mutex, _isLoading, _clientViews,
                   _viewIdToCallbackDescr, docKind, sent, loads, exited>>

NextDescriptor ==
    \/ NextViewInfo
    \/ \E t \in Callers : LoadThrows(t)

DescriptorSpec == InitViewInfo /\ [][NextDescriptor]_vars

\* --------------------------------------------- payload specification
\* The engine's callbacks with every payload it can hand over.
NextPayload ==
    \/ SetTerminationFlag
    \/ \E v \in ViewIds, kind \in CursorKinds \cup {"other"}, rect \in Payloads, jsonViewId \in ViewIds :
          ViewCallback(v, kind, rect, jsonViewId) /\ Len(queue') <= MaxPending
    \/ broadcastCallbackToClients /\ Len(queue') <= MaxPending
    \/ \E nType \in PasswordTypes : GlobalCallback(nType)
    \/ ~TerminationFlag /\ run({}, SMALL_MESSAGE_SIZE)

PayloadSpec == InitTermination /\ [][NextPayload]_vars

\* Load attempts one run makes before the engine stops asking.
MaxAttempts == 3

\* Document::load up to the call of documentLoad: the password fields are
\* set from the load command and the protected mark is cleared.
loadBegin(t, pwin) ==
    /\ exited = "running"
    /\ _loKitDocument = "null"
    /\ loads < MaxAttempts
    /\ loads' = loads + 1
    /\ _haveDocPassword' = pwin.have
    /\ _docPassword' = pwin.pw
    /\ _isDocPasswordProtected' = FALSE
    /\ delivered' = {}
    /\ step' = Step("load.begin", t, pwin.pw, ToString(pwin.have))
    /\ viewInfo' = NoViewInfo
    /\ UNCHANGED <<inactive, imgVars, restVars, docVars, _mutex, _isLoading, _clientViews,
                   _loKitDocument, _docPasswordType, _viewIdToCallbackDescr, lokVars,
                   docKind, sent, pc, args, loadRet, _sessions, exited, queue, cursors,
                   ws, wsNew, runPc, runFrame>>

\* documentLoad returns: with a document, or with null.
loadEnd(ok) ==
    /\ exited = "running"
    /\ _loKitDocument = "null"
    /\ _loKitDocument' = IF ok THEN "doc" ELSE "null"
    /\ delivered' = {}
    /\ step' = Step("load.end", "", "", ToString(ok))
    /\ viewInfo' = NoViewInfo
    /\ UNCHANGED <<inactive, imgVars, restVars, docVars, _mutex, _isLoading, _clientViews,
                   pwVars, _viewIdToCallbackDescr, lokVars, docKind, sent, callVars,
                   _sessions, exited, queue, cursors, ws, wsNew, runPc, runFrame>>

InitPassword ==
    /\ InitRun
    /\ LoadedAs("unloaded")
    /\ loadRet = [t \in Callers |-> "none"]
    /\ step = Quiet

\* The engine raises the password callbacks inside documentLoad only.
NextPassword ==
    \/ \E t \in Callers, pwin \in PasswordInputs :
          step.op \in {"", "load.end"} /\ loadBegin(t, pwin)
    \/ \E nType \in PasswordTypes :
          step.op \in {"load.begin", "GlobalCallback"} /\ GlobalCallback(nType)
    \/ \E ok \in BOOLEAN :
          step.op \in {"load.begin", "GlobalCallback"} /\ loadEnd(ok)

PasswordSpec == InitPassword /\ [][NextPassword]_vars

\* ================================================================ claims

Protected == docKind \in {"toView", "toModify"}
KindType == IF docKind = "toModify" THEN "ToModify" ELSE "ToView"
InLoadSection(t) == pc[t] \in {"load", "finish"}
AtLoadingWait(t) == pc[t] \in {"locked", "wait"}
\* The state a first load that failed on the password leaves behind.
PasswordLoadFailed == _loKitDocument = "null" /\ _isDocPasswordProtected

\* The session was erased from the map or the process has ended: nothing is
\* owed to its calls any more.
SessionGone(t) == t \notin DOMAIN _sessions \/ exited # "running"

\* C1: once a Document exists for URL U, a session message for another URL
\* creates no Document and no ChildSession (the handler reports failure, the
\* Document stays bound to U, the session map is unchanged); never more
\* than one Document is constructed.
C1_SingleDocument ==
    [][ /\ docCount' <= 1
        /\ document # NoDoc => document' = document
        /\ (step'.op = "session" /\ document # NoDoc /\ step'.arg # document)
              => /\ _sessions' = _sessions
                 /\ docCount' = docCount
                 /\ step'.ret = ToString(FALSE) ]_vars

C1_Witness ==
    /\ step.op = "session"
    /\ document # NoDoc
    /\ step.arg # document
    /\ step.ret = ToString(FALSE)
    /\ step.sid \notin DOMAIN _sessions
    /\ DOMAIN _sessions # {}

\* C2: createSession on an id that is in the map returns true and leaves the
\* map, that session included, as it was; on a new id it adds one session
\* under that id and leaves the others alone.
C2_CreateSessionIdempotent ==
    [][ (step'.op = "session" /\ step'.arg = document')
          => /\ step'.ret = ToString(TRUE)
             /\ step'.sid \in DOMAIN _sessions'
             /\ \A s \in DOMAIN _sessions : s \in DOMAIN _sessions'
                                            /\ _sessions'[s] = _sessions[s]
             /\ DOMAIN _sessions' = DOMAIN _sessions \cup {step'.sid} ]_vars

C2_Witness ==
    /\ step.op = "session"
    /\ step.ret = ToString(TRUE)
    /\ step.sid \in DOMAIN _sessions
    /\ _sessions[step.sid].closeFrame
    /\ Cardinality(DOMAIN _sessions) = 2

\* C3: at most one onLoad call is inside the load section, _isLoading never
\* exceeds 1 and counts the call that is inside, and a call enters the
\* section only from holding the Document mutex with _isLoading = 0.
C3_LoadsExclusive ==
    /\ [](/\ _isLoading \in {0, 1}
          /\ Cardinality({t \in Callers : InLoadSection(t)}) <= _isLoading)
    /\ [][ \A t \in Callers :
              (~InLoadSection(t) /\ InLoadSection(t)')
                 => (_isLoading = 0 /\ _mutex = t /\ pc[t] = "locked") ]_vars

C3_Witness ==
    \E t, u \in Callers : pc[t] = "load" /\ pc[u] = "wait" /\ _isLoading = 1

\* C4: after a load failed on the password, an onLoad call that is at the
\* loading wait eventually returns (unless its session is erased or the
\* process has ended).
C4_RetryGetsThrough ==
    \A t \in Callers :
        [] ((AtLoadingWait(t) /\ PasswordLoadFailed /\ exited = "running")
              => <> (pc[t] = "idle" \/ SessionGone(t)))

\* C5: when no onLoad call is in progress, _clientViews is the number of
\* views created and not destroyed, and it has not wrapped below zero.
C5_ClientViewsCountsViews ==
    (\A t \in Callers : pc[t] = "idle")
        => (_clientViews = Cardinality(lokViews) /\ _clientViews >= 0)

\* C6: the first load of a protected file without a password sends
\* passwordrequired:<kind> to the requesting session and to no other, makes
\* onLoad return null, and counts no view and adds no descriptor.
C6_PasswordRequired ==
    [][ \A t \in Callers :
          (load(t) /\ t \in DOMAIN _sessions /\ _loKitDocument = "null"
             /\ Protected /\ ~args[t].have)
            => /\ step' = Step("onLoad.return", t,
                               FramePasswordRequired(KindType), "null")
               /\ sent' = [sent EXCEPT ![t] =
                             @ \cup {FramePasswordRequired(KindType)}]
               /\ pc'[t] = "idle"
               /\ _clientViews' = _clientViews
               /\ _viewIdToCallbackDescr' = _viewIdToCallbackDescr
               /\ exited' = "running" ]_vars

\* C7: a session that was sent passwordrequired by a failed first load and
\* loads again with a wrong password is sent wrongpassword, and its onLoad
\* returns null (unless the session is erased or the process has ended).
C7_WrongPasswordOnRetry ==
    \A t \in Callers :
        [] ((/\ AtLoadingWait(t)
             /\ args[t] = [have |-> TRUE, pw |-> "wrong"]
             /\ PasswordLoadFailed
             /\ FramePasswordRequired(KindType) \in sent[t]
             /\ exited = "running")
              => <> (\/ step = Step("onLoad.return", t, FrameWrongPassword, "null")
                     \/ SessionGone(t)))

\* C8: after a first load failed on the password, a load with the right
\* password succeeds: the engine opens the file with it, the session gets
\* its view and _clientViews becomes 1 (unless the session is erased or the
\* process has ended).
C8_RightPasswordOnRetry ==
    \A t \in Callers :
        [] ((/\ AtLoadingWait(t)
             /\ args[t] = [have |-> TRUE, pw |-> CorrectPassword]
             /\ PasswordLoadFailed
             /\ exited = "running")
              => <> (\/ /\ _loKitDocument = "doc"
                        /\ lokPassword = CorrectPassword
                        /\ t \in DOMAIN _sessions
                        /\ _sessions[t].viewId \in lokViews
                        /\ _clientViews = 1
                        /\ pc[t] = "idle"
                     \/ SessionGone(t)))

\* C9: on a loaded protected document a later load creates a view only with
\* the stored password; without a password it is sent passwordrequired,
\* with another one wrongpassword, and then no view is created, no
\* descriptor is added and the call leaves _clientViews as it was.  On an
\* unprotected document a later load creates a view.
C9_LaterLoadsChecked ==
    [][ \A t \in Callers :
          /\ (load(t) /\ t \in DOMAIN _sessions /\ _loKitDocument = "doc")
               => IF _isDocPasswordProtected
                     /\ (~args[t].have \/ args[t].pw # _docPassword)
                  THEN /\ step'.arg = IF ~args[t].have
                                      THEN FramePasswordRequired(_docPasswordType)
                                      ELSE FrameWrongPassword
                       /\ lokViews' = lokViews
                       /\ _viewIdToCallbackDescr' = _viewIdToCallbackDescr
                       /\ loadRet'[t] = "null"
                  ELSE /\ lokViews' # lokViews
                       /\ loadRet'[t] = "doc"
          /\ (onLoadFinish(t) /\ loadRet[t] = "null")
               => _clientViews' = _clientViews ]_vars

\* C10 as claimed: whenever purgeSessions runs with no live session in the
\* map, the process exits with code 0 in that poll.
C10_ExitOnAnyPoll ==
    [][ (step'.op = "poll" /\ LiveSessions(_sessions) = {})
          => exited' = "EXIT_OK" ]_vars

\* C10: when purgeSessions runs with no live session in the map and gets
\* the Document mutex, the process exits with code 0 in that call; when
\* the mutex is held by another thread the call returns (size_t)-1 and the
\* process runs on; with a live session in the map it never exits.
C10_ExitWhenPurgeLocks ==
    [][ step'.op = "poll"
          => /\ (LiveSessions(_sessions) = {} /\ _mutex = Free)
                   => exited' = "EXIT_OK"
             /\ _mutex # Free
                   => (exited' = "running"
                       /\ step'.ret = ToString(PurgeUnavailable))
             /\ LiveSessions(_sessions) # {} => exited' = "running" ]_vars

C10_Witness ==
    /\ step.op = "poll"
    /\ exited = "EXIT_OK"
    /\ DOMAIN _sessions # {}
    /\ \A s \in DOMAIN _sessions : _sessions[s].closeFrame

\* C11: when purgeSessions gets the Document mutex and a session is live,
\* it erases exactly the sessions whose closeFrame is set, keeps every other
\* session as it was, does not exit, and returns the size of the map it
\* leaves.
C11_PurgeRemovesClosed ==
    [][ (step'.op = "poll" /\ _mutex = Free /\ LiveSessions(_sessions) # {})
          => /\ DOMAIN _sessions' = LiveSessions(_sessions)
             /\ \A s \in DOMAIN _sessions' : _sessions'[s] = _sessions[s]
             /\ exited' = "running"
             /\ step'.ret = ToString(Cardinality(DOMAIN _sessions')) ]_vars

C11_Witness ==
    /\ step.op = "poll"
    /\ step.arg = "1"
    /\ step.ret = "1"
    /\ Cardinality(DOMAIN _sessions) = 1
    /\ exited = "running"

\* C12: purgeSessions does not wait for the Document mutex: the poll can
\* always run, and when another thread holds the mutex it returns the
\* unavailable value, leaves the session map as it was and does not exit,
\* whatever the close-frame flags are.
C12_PurgeNeverBlocks ==
    /\ []((exited = "running" /\ document # NoDoc) => ENABLED TerminationPoll)
    /\ [][ (step'.op = "poll" /\ _mutex # Free)
             => /\ step'.ret = ToString(PurgeUnavailable)
                /\ _sessions' = _sessions
                /\ exited' = exited ]_vars

C12_Witness ==
    /\ step.op = "poll"
    /\ step.ret = ToString(PurgeUnavailable)
    /\ _mutex # Free
    /\ DOMAIN _sessions # {}
    /\ \A s \in DOMAIN _sessions : _sessions[s].closeFrame

\* A step of the dispatch loop that takes the message m from the queue.
RunStep == \E failed \in SUBSET TilePositions, size \in FrameSizes : run(failed, size)

\* C13: on the control socket a frame longer than SMALL_MESSAGE_SIZE comes
\* right after one nextmessage frame that announces its length, and a frame
\* that is not longer does not come right after a nextmessage frame,
\* whichever threads send.
C13_NextMessageFraming ==
    [][ wsNew' # wsNew
          => IF ws'.body = "nextmessage" THEN ws.body # "nextmessage"
             ELSE IF ws'.size > SMALL_MESSAGE_SIZE
                  THEN ws = NextMessageFrame(ws'.size)
                  ELSE ws.body # "nextmessage" ]_vars

\* C15: a tile or tilecombine request that is handled before a document is
\* loaded, or while the engine has no view, or whose PNG encoding fails for
\* one of its tiles, sends no frame, and the loop goes on to the next
\* message.
C15_RenderSoftSendsNothing ==
    [][ \A failed \in SUBSET TilePositions, size \in FrameSizes :
          (/\ run(failed, size)
           /\ IsTile(Head(queue))
           /\ Head(queue).ok
           /\ \/ _loKitDocument = "null"
              \/ lokViews = {}
              \/ Columns(Head(queue)) \cap failed # {})
            => /\ wsNew' = wsNew
               /\ ws' = ws
               /\ runFrame' = runFrame
               /\ runPc'["lok_handler"] = "idle" ]_vars

C15_Witness ==
    /\ step = Step("run", "tilecombine", "", "dropped")
    /\ _loKitDocument = "doc"
    /\ lokViews # {}
    /\ runPc["lok_handler"] = "idle"

\* C16: a callback message for view -1 is delivered to every session of the
\* map whose closeFrame is unset, one for another view id to the live
\* sessions with that view id, and never to a session with closeFrame set
\* or with another view id.
C16_CallbackDelivery ==
    [][ (RunStep /\ Head(queue).cmd = "callback")
          => delivered' =
                {s \in DOMAIN _sessions :
                    /\ \/ Head(queue).n = BroadcastViewId
                       \/ _sessions[s].viewId = Head(queue).n
                    /\ ~_sessions[s].closeFrame} ]_vars

C18_DispatchSurvivesError ==
    [][ (RunStep /\ ~Head(queue).ok) => runPc'["lok_handler"] = "idle" ]_vars

\* Every tile of the request lies a whole number of tiles from the corner of
\* the rectangle around them.
OnOneGrid(tiles) ==
    \A i \in DOMAIN tiles :
        /\ (tiles[i][1] - renderArea(tiles).left) % TileWidth = 0
        /\ (tiles[i][2] - renderArea(tiles).top) % TileHeight = 0

Rendered(i) == renderOut.combined # <<>> /\ renderOut.single[i] # <<>>

\* C14 (as claimed): for any tile positions, the image of tile i cut out of the
\* one painted rectangle of a tilecombine request equals the image of the
\* individual tile request for the same position, the document being the same.
C14_CombinedEqualsSingle ==
    \A i \in DOMAIN renderIn.tiles :
        Rendered(i) => renderOut.combined[i] = renderOut.single[i]

\* C14 (amended): the two images are equal when the tiles of the request lie on
\* one grid of tile-size steps.
C14_CombinedEqualsSingleOnGrid ==
    OnOneGrid(renderIn.tiles) =>
        \A i \in DOMAIN renderIn.tiles :
            Rendered(i) => renderOut.combined[i] = renderOut.single[i]

C14_Witness ==
    /\ renderIn.doc = "gradient"
    /\ Len(renderIn.tiles) = 2
    /\ renderIn.tiles[1] # renderIn.tiles[2]
    /\ OnOneGrid(renderIn.tiles)
    /\ \A i \in DOMAIN renderIn.tiles : Rendered(i)

NotTile(m) == ~IsTile(m)
Tiles(q) == SelectSeq(q, IsTile)
ControlPut(cmds) ==
    step'.op = "control" /\ step'.sid \in cmds /\ step'.ret = "TRUE"

\* C19: a canceltiles message of the control channel removes every tile and
\* tilecombine message that waits in the queue, leaves the waiting callback and
\* child messages in place and in order, sends no frame (neither when it is
\* put nor when the dispatch loop takes it), and does not touch a tile message
\* that is put after it.
C19_CancelTiles ==
    [][ /\ ControlPut({"canceltiles"}) =>
            /\ queue' = Append(SelectSeq(queue, NotTile), CancelTilesMsg)
            /\ ws' = ws /\ wsNew' = wsNew /\ runPc' = runPc
        /\ (step'.op = "run" /\ step'.sid = "canceltiles") =>
            /\ ws' = ws /\ wsNew' = wsNew /\ runPc' = runPc
        /\ ControlPut({"tile", "tilecombine"}) =>
            /\ Len(Tiles(queue')) = Len(Tiles(queue)) + 1
            /\ SelectSeq(queue', NotTile) = SelectSeq(queue, NotTile) ]_vars

C19_Witness ==
    /\ step = Step("control", "canceltiles", "1", "TRUE")
    /\ queue = <<ViewCallbackMsg(0, "cursor"), ChildMsg("s1", "key"), CancelTilesMsg>>

\* No tile message that misses the stored cursor rectangles waits ahead of one
\* that intersects them.
TilesFirst(q, cur) ==
    \A i, j \in DOMAIN q :
        (i < j /\ IsTile(q[i]) /\ IsTile(q[j]) /\ Priority(q[j], cur))
            => Priority(q[i], cur)

\* Putting the tile message m left the tile messages that intersect the
\* cursor rectangles in the order they were put, likewise the ones that miss
\* them, and every other message in its place.
StableSubOrders(m) ==
    /\ \A c \in BOOLEAN :
          SelectSeq2(queue', cursors, c) = SelectSeq2(Append(queue, m), cursors, c)
    /\ Len(queue') = Len(queue) + 1
    /\ \A i \in DOMAIN queue : NotTile(queue[i]) => queue'[i] = queue[i]

TileMessages == {m \in QueueMessages : IsTile(m)}

ViewInfoBroadcast ==
    /\ viewInfo'.sent
    /\ DOMAIN viewInfo'.frames = DOMAIN _sessions'
    /\ \A s \in DOMAIN _sessions' :
          viewInfo'.frames[s] =
              IF ~_sessions'[s].closeFrame /\ s \notin inactive' THEN 1 ELSE 0
    /\ DOMAIN viewInfo'.frame = lokViews'
    /\ \A v \in lokViews' :
          LET holders == {s \in DOMAIN _sessions' :
                             ~_sessions'[s].closeFrame /\ _sessions'[s].viewId = v}
          IN IF holders = {}
             THEN viewInfo'.frame[v] = [username |-> "Unknown", color |-> 0]
             ELSE \E s \in holders :
                     viewInfo'.frame[v] =
                         [username |-> UserNames[s],
                          color |-> IF UserNames[s] \in DOMAIN AuthorColours
                                    THEN AuthorColours[UserNames[s]] ELSE 0]

UnsafeCalls == {"link", "chroot", "chdir", "dropCapability"}

C22_UnsafeFailureExitsSoftware ==
    [][ (step'.ret = "failed" /\ step'.op \in UnsafeCalls)
        => (exited' = "EXIT_SOFTWARE" /\ mainPc' = mainPc) ]_vars

\* C23: the process exits with code 0 only when no live session remains;
\* when a call of the jail construction or the engine initialisation has
\* failed (a symlink and a tree mirror included) it ends with
\* EXIT_SOFTWARE, never with 0.
C23_ExitOkOnlyWithoutLiveSession ==
    [][ (exited = "running" /\ exited' = "EXIT_OK")
        => (jail'.failed = "" /\ jail'.sys # "stopped" /\ jail'.lo # "stopped"
            /\ LiveSessions(_sessions') = {}) ]_vars

\* C24: when the first documentLoad returns null and no password callback
\* was raised during the call, load ends the process with the
\* software-failure exit code (EXIT_SOFTWARE): the process does not stay
\* alive with a failed document.
C24_FailedFirstLoadExitsSoftware ==
    [][ \A t \in Callers :
          (/\ pc[t] = "load"
           /\ _loKitDocument = "null"
           /\ _loKitDocument' = "null"
           /\ pc'[t] # "load" \/ exited' # exited
           /\ ~_isDocPasswordProtected')
          => exited' = "EXIT_SOFTWARE" ]_vars

\* C25: after linkOrCopy has walked the whole source tree, no entry in or
\* below an excluded directory (the seven of COPY_LO, usr for COPY_NO_USR,
\* none for COPY_ALL) is in the destination, and every regular file of the
\* source outside these directories has a destination entry with its
\* inode.
ExcludedSubtrees(type) ==
    IF type = "COPY_LO"
    THEN {"program/wizards", "sdk", "share/basic", "share/gallery",
          "share/Scripts", "share/template", "share/config/wizard"}
    ELSE IF type = "COPY_NO_USR" THEN {"usr"}
    ELSE {}

RECURSIVE InExcluded(_)
InExcluded(i) ==
    /\ i # 0
    /\ \/ /\ mirror.src[i].kind = "dir"
          /\ Entries[i].path \in ExcludedSubtrees(mirror.type)
       \/ InExcluded(Entries[i].parent)

C25_MirrorExcludesAndLinks ==
    mirror.walk = "ok"
    => \A i \in EntryIds :
          /\ InExcluded(i) => mirror.dst[i] = Absent
          /\ (mirror.src[i].kind = "file" /\ ~InExcluded(i))
                => mirror.dst[i] = mirror.src[i]

C25_Witness ==
    /\ mirror.walk = "ok"
    /\ mirror.type = "COPY_LO"
    /\ mirror.src[6].kind = "file" /\ mirror.dst[6] = Absent
    /\ mirror.src[13].kind = "file" /\ mirror.dst[13] = mirror.src[13]
    /\ mirror.src[3].kind = "file" /\ mirror.dst[3] = mirror.src[3]

\* C26: a thread that is inside a call of the engine document owns the
\* mutex of lok::Document::getLock, so no two threads are inside the
\* engine document at the same time.
InsideOf(resource) == {t \in LockThreads : threads[t].inside = resource}

C26_EngineCallsUnderLock ==
    /\ \A t \in InsideOf("lok::Document") : "getLock" \in threads[t].locks
    /\ Cardinality(InsideOf("lok::Document")) <= 1

C26_Witness ==
    /\ InsideOf("lok::Document") = {"lok_handler"}
    /\ \E t \in Callers :
          /\ threads[t].op = "load"
          /\ Instruction(t) = Do("lock", "getLock")

\* C27: a thread that reads, inserts into or erases from _sessions owns
\* Document::_mutex, so purgeSessions on the main thread never erases
\* from the map while the dispatch thread iterates or looks up in it.
C27_SessionsUnderMutex ==
    /\ \A t \in InsideOf("_sessions") : "_mutex" \in threads[t].locks
    /\ ~ {"main", "lok_handler"} \subseteq InsideOf("_sessions")

\* C28: the commands of the control connection take effect in arrival
\* order, a session command and a child- command included; only tile
\* messages may be reordered among themselves.
IsChild(m) == m.cmd = "child"
Children(q) == SelectSeq(q, IsChild)

\* The queued commands: a child- command is put behind the waiting ones,
\* and the dispatch loop handles the message at the head of the queue.
QueuedInOrder ==
    /\ step'.op = "control"
          => \/ Children(queue') = Children(queue)
             \/ /\ Children(queue') # <<>>
                /\ Children(queue') = Append(Children(queue),
                                             queue'[Len(queue')])
    /\ step'.op = "run"
          => /\ queue # <<>>
             /\ queue' = Tail(queue)
             /\ step'.sid = Head(queue).cmd
             /\ IsChild(Head(queue))
                   => LET r == forwardToChild(_sessions, Head(queue).id, Head(queue).arg)
                      IN _sessions' = r.sessions /\ delivered' = r.input

\* The session command makes its session in the step it arrives in.
SessionAtOnce ==
    (step'.op = "session" /\ step'.ret = "TRUE")
        => (queue' = queue /\ step'.sid \in DOMAIN _sessions')

C28_ArrivalOrder ==
    [][ /\ QueuedInOrder
        /\ (step'.op = "session" /\ _sessions' # _sessions) => queue = <<>> ]_vars

\* C28, amended: child- commands take effect in arrival order among
\* themselves, each when the dispatch loop gets to it; a session command
\* takes effect when it arrives, whatever is still waiting in the queue.
C28_QueuedArrivalOrder ==
    [][ QueuedInOrder /\ SessionAtOnce ]_vars

C28_Witness ==
    /\ step.op = "session"
    /\ step.ret = "TRUE"
    /\ Len(Children(queue)) = 2
    /\ Children(queue)[1] # Children(queue)[2]
    /\ Children(queue)[1].id = step.sid

\* C29: the callbacks the engine raises for one view are delivered to the
\* session of that view in the order they were raised, whatever tile,
\* child- or other views' messages come in between.
ViewCallbacks(q, v) ==
    SelectSeq(q, LAMBDA m : m.cmd = "callback" /\ m.n = v)

C29_ViewCallbacksInOrder ==
    [][ \A v \in ViewIds :
          \* raised for v: behind the waiting callbacks of v
          /\ (step'.op = "ViewCallback" /\ step'.sid = ToString(v))
                => ViewCallbacks(queue', v)
                      = Append(ViewCallbacks(queue, v), ViewCallbackMsg(v, step'.arg))
          \* the dispatch loop handles the oldest waiting callback of v, and
          \* calls no session of another view
          /\ (step'.op = "run" /\ Head(queue).cmd = "callback" /\ Head(queue).n = v)
                => /\ Head(queue) = Head(ViewCallbacks(queue, v))
                   /\ ViewCallbacks(queue', v) = Tail(ViewCallbacks(queue, v))
                   /\ \A s \in delivered' : _sessions[s].viewId = v
          \* every other step leaves the waiting callbacks of v as they are
          /\ ~ (step'.op = "ViewCallback" /\ step'.sid = ToString(v))
                /\ ~ (step'.op = "run" /\ Head(queue).cmd = "callback" /\ Head(queue).n = v)
                => ViewCallbacks(queue', v) = ViewCallbacks(queue, v) ]_vars

C29_Witness ==
    /\ step = Step("run", "callback", "", "callback")
    /\ delivered = {"s1"}
    /\ queue = <<ViewCallbackMsg(1, "other"), ViewCallbackMsg(0, "other")>>

\* C30: once TerminationFlag is set, a global, view or document callback
\* returns with the state as it was: the password state, the cursor
\* positions and the queue included.
EngineCallbacks == {"GlobalCallback", "ViewCallback", "broadcast"}

C30_CallbacksShortCircuit ==
    [][ (TerminationFlag /\ step'.op \in EngineCallbacks)
        => UNCHANGED <<pwVars, cursors, queue, lokVars, _sessions, docVars, _mutex,
                       _isLoading, _clientViews, _loKitDocument,
                       _viewIdToCallbackDescr, sent, callVars, ws, wsNew, exited,
                       TerminationFlag>> ]_vars

C30_Witness ==
    /\ TerminationFlag
    /\ step = Step("ViewCallback", "1", "cursor", "")
    /\ queue # <<>>
    /\ cursors[<<0, 0>>] # NoRect

\* C31: in a load attempt the first password callback marks the document
\* protected with the kind of the callback and submits the stored
\* password when the load command had one, null when it had none; a
\* further password callback of an attempt that had a password submits
\* null, so a wrong password is not submitted twice.
CallbackKind(nType) ==
    IF nType = "LOK_CALLBACK_DOCUMENT_PASSWORD" THEN "ToView" ELSE "ToModify"

C31_PasswordCallbacks ==
    [][ step'.op = "GlobalCallback"
        => /\ step.op = "load.begin"
                 => /\ _isDocPasswordProtected'
                    /\ _docPasswordType' = CallbackKind(step'.arg)
                    /\ step'.ret = IF step.ret = "TRUE" THEN step.arg ELSE NullPassword
           /\ (step.op = "GlobalCallback" /\ _haveDocPassword)
                 => /\ step'.ret = NullPassword
                    /\ UNCHANGED pwVars ]_vars

C31_Witness ==
    /\ step.op = "GlobalCallback"
    /\ step.ret = NullPassword
    /\ _haveDocPassword
    /\ _docPassword = "wrong"
    /\ _isDocPasswordProtected
    /\ _docPasswordType = "ToModify"

\* C32: while the termination flag is unset, every call of the per-view
\* callback appends exactly one callback message with the descriptor's view
\* id to the queue, whatever its type and payload; a global callback of a
\* type that is no password request appends exactly one callback message of
\* view id -1, and one of a password type leaves the queue as it is.
C32_CallbacksAlwaysEnqueue ==
    [][ ~TerminationFlag
        => /\ step'.op = "ViewCallback"
                 => \E v \in ViewIds :
                       /\ step'.sid = ToString(v)
                       /\ queue' = Append(queue, ViewCallbackMsg(v, step'.arg))
           /\ step'.op = "broadcast"
                 => queue' = Append(queue, CallbackMsg(BroadcastViewId))
           /\ step'.op = "GlobalCallback" => queue' = queue ]_vars

\* C33: onUnload of a session on a loaded document clears the cursor
\* entries of the session's view and no others, destroys exactly the engine
\* view of the session's view id, erases the CallbackDescriptor of that view
\* id, takes exactly one off _clientViews and then broadcasts the view info;
\* with no engine document it clears the cursor entries and does nothing
\* else.
C33_Unload ==
    [][ step'.op = "onUnload"
        => LET viewId == _sessions[step'.sid].viewId
           IN /\ \A k \in CursorKeys :
                    cursors'[k] = IF k[1] = viewId THEN NoRect ELSE cursors[k]
              /\ _loKitDocument # "null"
                    => /\ lokViews' = lokViews \ {viewId}
                       /\ _viewIdToCallbackDescr' = _viewIdToCallbackDescr \ {viewId}
                       /\ _clientViews' = _clientViews - 1
                       /\ viewInfo'.sent
                       /\ DOMAIN viewInfo'.frame = lokViews'
              /\ _loKitDocument = "null"
                    => /\ viewInfo' = NoViewInfo
                       /\ UNCHANGED <<lokViews, _viewIdToCallbackDescr, _clientViews,
                                      _loKitDocument, queue, ws, wsNew>> ]_vars

C33_Witness ==
    /\ step.op = "onUnload"
    /\ step.ret = "TRUE"
    /\ viewInfo.sent
    /\ lokViews # {}
    /\ cursors[<<_sessions[step.sid].viewId, 0>>] = NoRect
    /\ \E k \in CursorKeys : cursors[k] # NoRect

\* C34: the keys of the viewId-to-CallbackDescriptor map are exactly the
\* engine views that were created and not destroyed: no view is without a
\* descriptor, also after a load that failed once its view was created, and
\* no descriptor outlives its view.
C34_DescriptorsAreViews == _viewIdToCallbackDescr = lokViews

RECURSIVE SumSizes(_)
SumSizes(tiles) == IF tiles = <<>> THEN 0 ELSE Head(tiles)[3] + SumSizes(Tail(tiles))

\* The rectangle around the positions, from their extremes.
BoundingRectangle(tiles) ==
    LET xs == {tiles[i][1] : i \in DOMAIN tiles}
        ys == {tiles[i][2] : i \in DOMAIN tiles}
    IN [left |-> CHOOSE x \in xs : \A o \in xs : x <= o,
        top |-> CHOOSE y \in ys : \A o \in ys : y <= o,
        width |-> (CHOOSE x \in xs : \A o \in xs : x >= o) + TileWidth
                      - (CHOOSE x \in xs : \A o \in xs : x <= o),
        height |-> (CHOOSE y \in ys : \A o \in ys : y >= o) + TileHeight
                      - (CHOOSE y \in ys : \A o \in ys : y <= o)]

\* The bytes of the payload that the sizes recorded on the tiles before
\* tile i and on tile i cut out.
PayloadOf(frame, tiles, i) ==
    SubSeq(frame.payload, SumSizes(SubSeq(tiles, 1, i - 1)) + 1, SumSizes(SubSeq(tiles, 1, i)))

\* C35: a tilecombine request of N positions that is rendered paints once,
\* the rectangle around all the positions, and sends exactly one binary
\* frame; the size recorded on tile i is that of the image of position i,
\* in the order of the request, and the N sizes add up to the bytes of the
\* payload behind the header line.
C35_CombinedResponse ==
    (step.op = "renderCombinedTiles" /\ step.ret = "sent")
        => LET tiles == renderIn.tiles
               binary == SelectSeq(renderOut.frames, LAMBDA f : f.type = "binary")
           IN /\ renderOut.painted = <<BoundingRectangle(tiles)>>
              /\ Len(binary) = 1
              /\ Len(renderOut.combined) = Len(tiles)
              /\ \A i \in DOMAIN tiles :
                    /\ tiles[i][3] = Len(pngBytes(renderOut.combined[i]))
                    /\ PayloadOf(binary[1], tiles, i) = pngBytes(renderOut.combined[i])
              /\ SumSizes(tiles) = Len(binary[1].payload)
              /\ binary[1].header[2] = [i \in DOMAIN tiles |-> tiles[i][3]]

C35_Witness ==
    /\ step.op = "renderCombinedTiles"
    /\ step.ret = "sent"
    /\ Len(renderIn.tiles) = 2
    /\ renderIn.tiles[1][3] > renderIn.tiles[2][3]
    /\ Len(renderOut.frames) = 2

\* C36: the optional steps of the jail construction cannot end it: whether
\* the copy of the name-resolution files and the two mknod calls succeed or
\* fail, the process stays alive and lokit_main goes on, from the copy to
\* the device nodes and from the device nodes to chroot.
OptionalCalls == {"copyTo", "mknod"}

C36_OptionalFailuresIgnored ==
    [][ (step'.op \in OptionalCalls /\ mainPc \in OptionalCalls)
        => /\ exited' = "running"
           /\ mainPc' = IF mainPc = "copyTo" THEN "mknod" ELSE "chroot" ]_vars

\* C37: the poll of the control loop sets the termination flag only when
\* no live session is left; when purgeSessions finds the mutex taken it
\* returns (size_t)-1, canDiscard is false, and the poll leaves the flag,
\* the sessions and the process as they are; purgeSessions never returns
\* 0, because with no live session it ends the process instead.
C37_DiscardOnlyWithoutSessions ==
    [][ step'.op = "poll"
        => /\ (TerminationFlag' /\ ~TerminationFlag) => LiveSessions(_sessions) = {}
           /\ _mutex # Free
                 => /\ step'.ret = ToString(PurgeUnavailable)
                    /\ UNCHANGED <<TerminationFlag, _sessions, exited>>
           /\ exited' = "running" => step'.ret # "0"
           /\ (_mutex = Free /\ LiveSessions(_sessions) = {}) => exited' = "EXIT_OK" ]_vars

C37_Witness ==
    /\ step.op = "poll"
    /\ step.ret = ToString(PurgeUnavailable)
    /\ _mutex # Free
    /\ ~TerminationFlag
    /\ exited = "running"
    /\ LiveSessions(_sessions) # DOMAIN _sessions

\* C38: whatever the positions of the tiles and whatever the positive tile
\* sizes are, the part of the pixmap handed to the encoder for each tile
\* lies inside the pixmap: (positionX + 1) * pixelWidth <= pixmapWidth and
\* (positionY + 1) * pixelHeight <= pixmapHeight, and its last pixel is
\* inside the 4 * pixmapWidth * pixmapHeight bytes allocated.
C38_SlicesInsidePixmap ==
    \A k \in DOMAIN renderOut.painted :
        LET p == renderOut.painted[k]
        IN \A i \in DOMAIN p.slices :
              LET slice == p.slices[i]
              IN /\ slice.startX >= 0
                 /\ slice.startY >= 0
                 /\ slice.startX + slice.width <= p.pixmapWidth
                 /\ slice.startY + slice.height <= p.pixmapHeight
                 /\ 4 * ((slice.startY + slice.height - 1) * p.pixmapWidth
                             + slice.startX + slice.width) <= p.pixmapSize

C38_Witness ==
    /\ step.ret = "encoding"
    /\ renderIn.tileWidth = 2
    /\ renderIn.tiles = << <<0, 0>>, <<3, 1>> >>
    /\ renderOut.painted[1].slices[2].startX = renderIn.width
    /\ renderOut.painted[1].pixmapWidth = 2 * renderIn.width

\* A thread that waits for a mutex another thread, or itself, owns.
Waits(t) ==
    /\ threads[t].op # ""
    /\ Instruction(t).do = "lock"
    /\ Owned(Instruction(t).on)

\* C39: the main thread, the dispatch thread and the threads the engine
\* raises its callbacks on never deadlock: no thread asks for the mutex of
\* the engine document while it owns Document::_mutex, none asks for
\* Document::_mutex while it owns the lock of the queue, none asks for a
\* mutex it owns already (a callback raised inside an engine call
\* included), and there is no set of threads each waiting for a mutex that
\* one of the set owns.
C39_NoDeadlock ==
    /\ \A t \in LockThreads :
          (threads[t].op # "" /\ Instruction(t).do \in {"lock", "try_lock"})
              => /\ Instruction(t).on \notin threads[t].locks
                 /\ Instruction(t).on \in {"getLock", "_loKit"}
                       => "_mutex" \notin threads[t].locks
                 /\ Instruction(t).on = "_mutex" => "queue" \notin threads[t].locks
    /\ \A S \in SUBSET LockThreads \ {{}} :
          ~ \A t \in S : Waits(t) /\ \E u \in S : Instruction(t).on \in threads[u].locks

C39_Witness ==
    /\ threads["lok_handler"].locks = {"getLock", "_mutex", "queue"}
    /\ threads["lok_handler"].op = "renderTile.callback"
    /\ Waits("s1") /\ Instruction("s1").on = "_mutex"
    /\ Waits("main") /\ Instruction("main").on = "queue"
    /\ Waits("s2") /\ Instruction("s2").on = "getLock"

====
